---- MODULE Spec2Model ----
(***************************************************************************)
(* A model of the HTTP forward proxy of caua1503/Proxy: the proxy manager  *)
(* (app/core/manager.py), which fronts a pool of upstream proxies, and the *)
(* asynchronous edge proxy (app/core/proxy.py).                            *)
(*                                                                         *)
(* Both run on one asyncio event loop: a coroutine runs without            *)
(* interruption from one suspension point (an await that really waits: a   *)
(* socket read, a connect, a drain, a wait for tasks) to the next.  Each   *)
(* action below is one such uninterrupted run.  Awaiting a coroutine that  *)
(* never waits (_choose_proxy, the acquisition of a free asyncio.Lock or   *)
(* Semaphore) is not a suspension point.                                   *)
(***************************************************************************)
EXTENDS Integers, Sequences, FiniteSets, TLC

VARIABLES
    proxy_url,               \* ProxyManager.proxy_url: the pool, a sequence of ProxyModel
    proxy_concurrent_table,  \* ProxyManager.proxy_concurrent_table: url -> concurrent
    proxy_table,             \* ProxyManager.proxy_table: url -> latency (None = unknown)
    prober,                  \* the position of the _update_proxy task
    firewall,                \* the ProxyFirewall of the server, or NoFirewall
    auth,                    \* TRUE iff a ProxyAuth is configured
    clients,                 \* the <<peer host, request method>> pairs clients present
    conn,                    \* manager: one record per client connection handler
    semaphore,               \* edge proxy: free slots of Proxy._semaphore
    econn,                   \* edge proxy: one record per client connection handler
    calls,                   \* bookkeeping of direct _update_proxy_concurrent calls
    chosen,                  \* the result of a direct _choose_proxy call
    tunnel,                  \* edge proxy: the octets of one CONNECT tunnel
    modes,                   \* one scenario run through Proxy and through SyncProxy
    rewrite,                 \* a request and its egress rewrite
    direct                   \* a direct call of a function or constructor: arguments, result

vars == <<proxy_url, proxy_concurrent_table, proxy_table, prober, firewall, auth, clients,
          conn, semaphore, econn, calls, chosen, tunnel, modes, rewrite, direct>>

\* what the manager's connection handlers never change
mgrFrame == <<proxy_url, proxy_table, prober, firewall, auth, clients, semaphore, econn,
              calls, chosen, tunnel, modes, rewrite, direct>>

----------------------------------------------------------------------------
(* Bounds of the model. *)

\* number of client connections the manager handles in the main specification
NumRequests == 2

----------------------------------------------------------------------------
(* Small helpers. *)

Max(a, b) == IF a >= b THEN a ELSE b

Count(s, e) == Cardinality({i \in 1..Len(s) : s[i] = e})

\* the position of the first occurrence of e in s, 0 when absent
RECURSIVE IndexFrom(_, _, _)
IndexFrom(s, e, i) ==
    IF i > Len(s) THEN 0 ELSE IF s[i] = e THEN i ELSE IndexFrom(s, e, i + 1)

Index(s, e) == IndexFrom(s, e, 1)

----------------------------------------------------------------------------
(* Data model. *)

\* a ProxyModel after __post_init__: the normalised url, max_connections, priority
ProxyModel(u, m, p) == [url |-> u, max_connections |-> m, priority |-> p]

NoFirewall == [enabled |-> FALSE, allowlist |-> {}, blocklist |-> {}, no_auth_required |-> {}]

ProxyFirewall(a, b, n) ==
    [enabled |-> TRUE, allowlist |-> a, blocklist |-> b, no_auth_required |-> n]

\* ProxyFirewall.verify
verify(fw, host) ==
    IF host \in fw.blocklist THEN FALSE
    ELSE IF fw.allowlist # {} THEN host \in fw.allowlist
    ELSE TRUE

\* ProxyFirewall.is_no_auth_required
is_no_auth_required(fw, host) == host \in fw.no_auth_required

\* ProxyManager._get_proxy_concurrent_table: every pool url starts at 0
get_proxy_concurrent_table(proxy_list) ==
    [u \in {proxy_list[i].url : i \in 1..Len(proxy_list)} |-> 0]

----------------------------------------------------------------------------
(* Upstream selection and concurrency accounting (manager.py). *)

NoUpstream == "NoUpstream"

\* self.proxy_concurrent_table.get(url, {"concurrent": 0}).get("concurrent", 0)
Concurrent(tbl, url) == IF url \in DOMAIN tbl THEN tbl[url] ELSE 0

\* load_ratio = current_concurrent / max_conn, kept as the exact fraction <<num, den>>;
\* float("inf") is <<1, 0>>
load_ratio(tbl, proxy) == <<Concurrent(tbl, proxy.url), Max(1, proxy.max_connections)>>

Infinity == <<1, 0>>

\* x < y on fractions with non-negative numerators (den 0 is +infinity)
RatioLess(x, y) == x[1] * y[2] < y[1] * x[2]

\* the loop of _choose_proxy with "<=" for "<" in the comparison with best_ratio:
\* among equal ratios the last upstream seen wins
RECURSIVE choose_loop_LastSeen(_, _, _, _, _)
choose_loop_LastSeen(pl, tbl, i, best_proxy, best_ratio) ==
    IF i > Len(pl)
    THEN IF best_proxy # 0 THEN pl[best_proxy].url ELSE pl[1].url
    ELSE LET proxy == pl[i]
             current_concurrent == Concurrent(tbl, proxy.url)
             ratio == load_ratio(tbl, proxy)
             better == ~RatioLess(best_ratio, ratio)
         IN IF current_concurrent < proxy.max_connections /\ ratio[1] = 0
            THEN proxy.url
            ELSE choose_loop_LastSeen(pl, tbl, i + 1,
                                      IF better THEN i ELSE best_proxy,
                                      IF better THEN ratio ELSE best_ratio)

\* the loop of _choose_proxy comparing the counters instead of the load ratios
RECURSIVE choose_loop_ByCount(_, _, _, _, _)
choose_loop_ByCount(pl, tbl, i, best_proxy, best_ratio) ==
    IF i > Len(pl)
    THEN IF best_proxy # 0 THEN pl[best_proxy].url ELSE pl[1].url
    ELSE LET proxy == pl[i]
             current_concurrent == Concurrent(tbl, proxy.url)
             ratio == <<current_concurrent, 1>>
             better == RatioLess(ratio, best_ratio)
         IN IF current_concurrent < proxy.max_connections /\ ratio[1] = 0
            THEN proxy.url
            ELSE choose_loop_ByCount(pl, tbl, i + 1,
                                     IF better THEN i ELSE best_proxy,
                                     IF better THEN ratio ELSE best_ratio)

\* the for loop of _choose_proxy from position i on, best_proxy being the pool
\* position of the best upstream so far (0 = None) and best_ratio its ratio
RECURSIVE choose_loop(_, _, _, _, _)
choose_loop(pl, tbl, i, best_proxy, best_ratio) ==
    IF i > Len(pl)
    THEN IF best_proxy # 0 THEN pl[best_proxy].url ELSE pl[1].url
    ELSE LET proxy == pl[i]
             current_concurrent == Concurrent(tbl, proxy.url)
             ratio == load_ratio(tbl, proxy)
             better == RatioLess(ratio, best_ratio)
         IN IF current_concurrent < proxy.max_connections /\ ratio[1] = 0
            THEN proxy.url
            ELSE choose_loop(pl, tbl, i + 1,
                             IF better THEN i ELSE best_proxy,
                             IF better THEN ratio ELSE best_ratio)

\* _choose_proxy returning the first upstream of the pool whatever its load
choose_proxy_FirstInPool(pl, tbl) ==
    IF Len(pl) = 0 THEN NoUpstream ELSE pl[1].url

\* _choose_proxy refusing when no upstream is below its max_connections
choose_proxy_HardCap(pl, tbl) ==
    IF \A i \in 1..Len(pl) : Concurrent(tbl, pl[i].url) >= pl[i].max_connections
    THEN NoUpstream
    ELSE choose_loop(pl, tbl, 1, 0, Infinity)

\* ProxyManager._choose_proxy: NoUpstream stands for the raised exception
choose_proxy(pl, tbl) ==
    IF Len(pl) = 0 THEN NoUpstream ELSE choose_loop(pl, tbl, 1, 0, Infinity)

\* _update_proxy_concurrent with "add" storing 1 instead of adding 1
update_proxy_concurrent_SetOne(tbl, how, usage_proxy) ==
    IF how = "add" THEN [tbl EXCEPT ![usage_proxy] = 1]
    ELSE IF how = "remove" THEN [tbl EXCEPT ![usage_proxy] = Max(0, @ - 1)]
    ELSE tbl

\* _update_proxy_concurrent with the max(0, ...) of "remove" left out
update_proxy_concurrent_NoFloor(tbl, how, usage_proxy) ==
    IF how = "add" THEN [tbl EXCEPT ![usage_proxy] = @ + 1]
    ELSE IF how = "remove" THEN [tbl EXCEPT ![usage_proxy] = @ - 1]
    ELSE tbl

\* ProxyManager._update_proxy_concurrent: the body run under self.locks[usage_proxy].
\* The lock is free whenever a task runs (no holder ever suspends), so acquiring it
\* never waits and the call is one uninterrupted step.
update_proxy_concurrent(tbl, how, usage_proxy) ==
    IF how = "add" THEN [tbl EXCEPT ![usage_proxy] = @ + 1]
    ELSE IF how = "remove" THEN [tbl EXCEPT ![usage_proxy] = Max(0, @ - 1)]
    ELSE tbl

----------------------------------------------------------------------------
(* Responses, ProxyResponse and ProxyProtocol (app/core/response.py), and the *)
(* 407 of the blocking helper send_proxy_auth_required (app/utils/helpers.py).*)
(* Headers are the sequence of <<name, value>> a dict holds in insertion      *)
(* order; a body is <<>> for Python's None and <<text>> for a str, text being  *)
(* the sequence of its code points; octets are integers.                      *)

\* HTTPStatus(status_code).phrase
phrase(status_code) ==
    CASE status_code = 400 -> "Bad Request"
      [] status_code = 403 -> "Forbidden"
      [] status_code = 407 -> "Proxy Authentication Required"
      [] status_code = 408 -> "Request Timeout"
      [] status_code = 502 -> "Bad Gateway"
      [] status_code = 504 -> "Gateway Timeout"

\* name in headers
HasHeader(headers, name) == \E i \in 1..Len(headers) : headers[i][1] = name

\* headers.setdefault(name, value)
setdefault(headers, name, value) ==
    IF HasHeader(headers, name) THEN headers ELSE Append(headers, <<name, value>>)

\* headers[name] = value
setitem(headers, name, value) ==
    IF HasHeader(headers, name)
    THEN [i \in 1..Len(headers) |->
             IF headers[i][1] = name THEN <<name, value>> ELSE headers[i]]
    ELSE Append(headers, <<name, value>>)

\* ProxyProtocol.CONNECTION_CLOSE, and the literal {"Connection": "close"}
CONNECTION_CLOSE == <<<<"Connection", "close">>>>

\* the UTF-8 octets of a code point below 2048
utf8(c) == IF c < 128 THEN <<c>> ELSE <<192 + (c \div 64), 128 + (c % 64)>>

\* str.encode("utf-8")
RECURSIVE encode(_)
encode(text) == IF text = <<>> THEN <<>> ELSE utf8(Head(text)) \o encode(Tail(text))

\* ProxyResponse.__new__ with a None or str body and no response_type, but with
\* Content-Length taken from len(str(body)), the number of characters
ProxyResponse_CharCount(status_code, body, headers) ==
    LET body_bytes == IF body = <<>> THEN <<>> ELSE encode(body[1])
        typed == IF body = <<>> THEN headers
                 ELSE setdefault(headers, "Content-Type", "text/plain; charset=utf-8")
        sized == IF body_bytes # <<>>
                 THEN setitem(typed, "Content-Length", ToString(Len(body[1])))
                 ELSE typed
    IN [status_code |-> status_code, reason |-> phrase(status_code),
        headers |-> sized, body |-> body_bytes]

\* ProxyResponse.__new__ with a None or str body and no response_type
ProxyResponse(status_code, body, headers) ==
    LET body_bytes == IF body = <<>> THEN <<>> ELSE encode(body[1])
        typed == IF body = <<>> THEN headers
                 ELSE setdefault(headers, "Content-Type", "text/plain; charset=utf-8")
        sized == IF body_bytes # <<>>
                 THEN setitem(typed, "Content-Length", ToString(Len(body_bytes)))
                 ELSE typed
    IN [status_code |-> status_code, reason |-> phrase(status_code),
        headers |-> sized, body |-> body_bytes]

\* no response has been written
NoResponse == [status_code |-> 0, reason |-> "", headers |-> <<>>, body |-> <<>>]

\* the octets of b"Proxy Authentication Required"
ProxyAuthenticationRequired ==
    <<80, 114, 111, 120, 121, 32, 65, 117, 116, 104, 101, 110, 116, 105,
      99, 97, 116, 105, 111, 110, 32, 82, 101, 113, 117, 105, 114, 101,
      100>>

\* the bytes send_proxy_auth_required sends
send_proxy_auth_required ==
    [status_code |-> 407, reason |-> "Proxy Authentication Required",
     headers |-> <<<<"Proxy-Authenticate", "Basic realm=\"Proxy\"">>,
                   <<"Content-Type", "text/plain; charset=utf-8">>,
                   <<"Connection", "close">>,
                   <<"Content-Length", ToString(Len(ProxyAuthenticationRequired))>>>>,
     body |-> ProxyAuthenticationRequired]

----------------------------------------------------------------------------
(* The manager's connection handler, ProxyManager._handle_client_request. *)

\* client hosts: h1 is allowed and needs no authentication, h2 is blocked, h3 is
\* allowed, h4 needs no authentication but is not allowed
Hosts == {"h1", "h2", "h3", "h4"}

Methods == {"CONNECT", "GET"}

Requests == DOMAIN conn

NewConn ==
    [pc |-> "read_headers", client_host |-> "?", method |-> "?", credentials |-> "?",
     proxy |-> "none",
     writer |-> "open", upstream |-> "none", pipe1 |-> "none", pipe2 |-> "none",
     sent |-> <<>>, response |-> NoResponse, log |-> <<>>]

\* FirewallPass with no_auth_required passing the firewall as well
FirewallPass_NoAuthPasses(host) ==
    ~(firewall.enabled /\ ~verify(firewall, host) /\ ~is_no_auth_required(firewall, host))

\* the firewall lets the client host through (manager.py line 156)
FirewallPass(host) == ~(firewall.enabled /\ ~verify(firewall, host))

\* authentication is required of this host and fails (manager.py lines 171-173)
AuthFails(host, authorized) ==
    auth /\ ~(firewall.enabled /\ is_no_auth_required(firewall, host)) /\ ~authorized

\* what auth.is_authorized(headers) is for the headers the client sent
Credentials(authorized) == IF authorized THEN "valid" ELSE "invalid"

Set(r, c) == conn' = [conn EXCEPT ![r] = c]

\* lines 143-154: the header read times out or fails: close the client, return
ReadHeadersFail(r) ==
    /\ conn[r].pc = "read_headers"
    /\ \E cl \in clients :
         LET host == cl[1] IN
         Set(r, [conn[r] EXCEPT !.pc = "done", !.client_host = host, !.writer = "closed"])
    /\ UNCHANGED <<proxy_concurrent_table, mgrFrame>>

\* lines 156-162: the firewall rejects the client host: 403 is written and drained
FirewallReject(r) ==
    /\ conn[r].pc = "read_headers"
    /\ \E cl \in clients :
         LET host == cl[1]  authorized == cl[3] IN
         /\ ~FirewallPass(host)
         /\ Set(r, [conn[r] EXCEPT !.pc = "drain_403", !.client_host = host,
                                   !.credentials = Credentials(authorized),
                                   !.sent = Append(@, 403),
            !.response = ProxyResponse(403, <<>>, CONNECTION_CLOSE)])
    /\ UNCHANGED <<proxy_concurrent_table, mgrFrame>>

\* lines 163-169: the finally of the 403 path closes the client whatever drain did
Drain403(r) ==
    /\ conn[r].pc = "drain_403"
    /\ Set(r, [conn[r] EXCEPT !.pc = "done", !.writer = "closed"])
    /\ UNCHANGED <<proxy_concurrent_table, mgrFrame>>

\* lines 171-182: authentication fails: 407 is written and drained
AuthReject(r) ==
    /\ conn[r].pc = "read_headers"
    /\ \E cl \in clients :
         LET host == cl[1]  authorized == cl[3] IN
         /\ FirewallPass(host)
         /\ AuthFails(host, authorized)
         /\ Set(r, [conn[r] EXCEPT !.pc = "drain_407", !.client_host = host,
                                   !.credentials = Credentials(authorized),
                                   !.sent = Append(@, 407),
            !.response = ProxyResponse(407, <<>>, CONNECTION_CLOSE)])
    /\ UNCHANGED <<proxy_concurrent_table, mgrFrame>>

\* lines 182-183: after the drain the handler returns (or the drain raises); the
\* writer is not closed on this path
Drain407(r) ==
    /\ conn[r].pc = "drain_407"
    /\ Set(r, [conn[r] EXCEPT !.pc = "done"])
    /\ UNCHANGED <<proxy_concurrent_table, mgrFrame>>

\* ChooseFails answering 502 before it closes
ChooseFails_Answers(r) ==
    /\ conn[r].pc = "read_headers"
    /\ \E cl \in clients :
         LET host == cl[1]  m == cl[2]  authorized == cl[3] IN
         /\ FirewallPass(host)
         /\ ~AuthFails(host, authorized)
         /\ choose_proxy(proxy_url, proxy_concurrent_table) = NoUpstream
         /\ Set(r, [conn[r] EXCEPT !.pc = "done", !.client_host = host, !.method = m,
                                   !.credentials = Credentials(authorized),
                                   !.sent = Append(@, 502),
                                   !.writer = "closed"])
    /\ UNCHANGED <<proxy_concurrent_table, mgrFrame>>

\* lines 185-196: _choose_proxy raises on an empty pool: close the client, return
ChooseFails(r) ==
    /\ conn[r].pc = "read_headers"
    /\ \E cl \in clients :
         LET host == cl[1]  m == cl[2]  authorized == cl[3] IN
         /\ FirewallPass(host)
         /\ ~AuthFails(host, authorized)
         /\ choose_proxy(proxy_url, proxy_concurrent_table) = NoUpstream
         /\ Set(r, [conn[r] EXCEPT !.pc = "done", !.client_host = host, !.method = m,
                                   !.credentials = Credentials(authorized),
                                   !.writer = "closed"])
    /\ UNCHANGED <<proxy_concurrent_table, mgrFrame>>

\* Dispatch with the connect started before (and without) the increment
Dispatch_ConnectFirst(r) ==
    /\ conn[r].pc = "read_headers"
    /\ \E cl \in clients :
         LET host == cl[1]  m == cl[2]  authorized == cl[3] IN
         LET url == choose_proxy(proxy_url, proxy_concurrent_table) IN
         /\ FirewallPass(host)
         /\ ~AuthFails(host, authorized)
         /\ url # NoUpstream
         /\ Set(r, [conn[r] EXCEPT !.pc = "connect", !.client_host = host, !.method = m,
                                   !.credentials = Credentials(authorized),
                                   !.proxy = url, !.log = @ \o <<"connect">>])
    /\ UNCHANGED <<proxy_concurrent_table, mgrFrame>>

\* lines 185-206: an upstream is chosen, its counter incremented, and the TCP
\* connect to it started, in this order and without suspension in between
Dispatch(r) ==
    /\ conn[r].pc = "read_headers"
    /\ \E cl \in clients :
         LET host == cl[1]  m == cl[2]  authorized == cl[3] IN
         LET url == choose_proxy(proxy_url, proxy_concurrent_table) IN
         /\ FirewallPass(host)
         /\ ~AuthFails(host, authorized)
         /\ url # NoUpstream
         /\ proxy_concurrent_table' =
                update_proxy_concurrent(proxy_concurrent_table, "add", url)
         /\ Set(r, [conn[r] EXCEPT !.pc = "connect", !.client_host = host, !.method = m,
                                   !.credentials = Credentials(authorized),
                                   !.proxy = url, !.log = @ \o <<"inc", "connect">>])
    /\ UNCHANGED mgrFrame

\* ConnectFail without the decrement of line 209
ConnectFail_NoDecrement(r) ==
    /\ conn[r].pc = "connect"
    /\ Set(r, [conn[r] EXCEPT !.pc = "drain_502",
                              !.sent = Append(@, 502),
            !.response = ProxyResponse(502, <<>>, CONNECTION_CLOSE)])
    /\ UNCHANGED <<proxy_concurrent_table, mgrFrame>>

\* lines 207-213: the connect fails or times out: decrement, write 502, drain
ConnectFail(r) ==
    /\ conn[r].pc = "connect"
    /\ proxy_concurrent_table' =
           update_proxy_concurrent(proxy_concurrent_table, "remove", conn[r].proxy)
    /\ Set(r, [conn[r] EXCEPT !.pc = "drain_502", !.log = Append(@, "dec"),
                              !.sent = Append(@, 502),
            !.response = ProxyResponse(502, <<>>, CONNECTION_CLOSE)])
    /\ UNCHANGED mgrFrame

\* lines 213-219: the drain of the 502, then writer.close(). The drain is outside
\* any try, and StreamWriter.drain raises only when the connection is lost, that is
\* when the transport has already closed the socket: the socket is closed on both
\* outcomes
Drain502(r) ==
    /\ conn[r].pc = "drain_502"
    /\ Set(r, [conn[r] EXCEPT !.pc = "done", !.writer = "closed"])
    /\ UNCHANGED <<proxy_concurrent_table, mgrFrame>>

\* lines 204-206, 238-247: the connect succeeds; the CONNECT line (CONNECT) or the
\* buffered request (otherwise) is written to the upstream and drained
ConnectOk(r) ==
    /\ conn[r].pc = "connect"
    /\ Set(r, [conn[r] EXCEPT !.pc = "forward", !.upstream = "open"])
    /\ UNCHANGED <<proxy_concurrent_table, mgrFrame>>

\* lines 242-244 (CONNECT only): the upstream's response header block is read
ForwardDrained(r) ==
    /\ conn[r].pc = "forward"
    /\ conn[r].method = "CONNECT"
    /\ Set(r, [conn[r] EXCEPT !.pc = "upstream_response"])
    /\ UNCHANGED <<proxy_concurrent_table, mgrFrame>>

\* lines 243-244 (CONNECT only): the response is written to the client and drained
UpstreamResponded(r) ==
    /\ conn[r].pc = "upstream_response"
    /\ Set(r, [conn[r] EXCEPT !.pc = "drain_response", !.sent = Append(@, 200)])
    /\ UNCHANGED <<proxy_concurrent_table, mgrFrame>>

\* lines 249-251: both pipes are created and the handler waits for the first to end
StartRelay(r) ==
    /\ \/ conn[r].pc = "forward" /\ conn[r].method # "CONNECT"
       \/ conn[r].pc = "drain_response"
    /\ Set(r, [conn[r] EXCEPT !.pc = "relay", !.pipe1 = "running", !.pipe2 = "running",
                              !.log = Append(@, "relay")])
    /\ UNCHANGED <<proxy_concurrent_table, mgrFrame>>

\* lines 221-236: pipe(client, upstream_writer) ends (EOF or error on the client
\* side, or a failed write); its finally closes upstream_writer
Pipe1End(r) ==
    /\ conn[r].pipe1 = "running"
    /\ Set(r, [conn[r] EXCEPT !.pipe1 = "done", !.upstream = "closed"])
    /\ UNCHANGED <<proxy_concurrent_table, mgrFrame>>

\* lines 221-236: pipe(upstream_reader, writer) ends; its finally closes the
\* client writer
Pipe2End(r) ==
    /\ conn[r].pipe2 = "running"
    /\ Set(r, [conn[r] EXCEPT !.pipe2 = "done", !.writer = "closed"])
    /\ UNCHANGED <<proxy_concurrent_table, mgrFrame>>

\* RelayFinally with the decrement left out of the finally block
RelayFinally_NoDecrement(r) ==
    /\ \/ conn[r].pc \in {"forward", "upstream_response", "drain_response"}
       \/ conn[r].pc = "relay" /\ "done" \in {conn[r].pipe1, conn[r].pipe2}
    /\ Set(r, [conn[r] EXCEPT !.pc = "done", !.upstream = "closed", !.writer = "closed"])
    /\ UNCHANGED <<proxy_concurrent_table, mgrFrame>>

\* lines 252-265: the finally of the relay block, entered when a write, a drain or
\* the read of the upstream's response raised (before any pipe exists) or when
\* asyncio.wait returned because the first pipe ended: decrement, then close the
\* upstream writer and the client writer; the handler returns.  A pipe that is
\* still running is neither cancelled nor awaited.
RelayFinally(r) ==
    /\ \/ conn[r].pc \in {"forward", "upstream_response", "drain_response"}
       \/ conn[r].pc = "relay" /\ "done" \in {conn[r].pipe1, conn[r].pipe2}
    /\ proxy_concurrent_table' =
           update_proxy_concurrent(proxy_concurrent_table, "remove", conn[r].proxy)
    /\ Set(r, [conn[r] EXCEPT !.pc = "done", !.log = Append(@, "dec"),
                              !.upstream = "closed", !.writer = "closed"])
    /\ UNCHANGED mgrFrame

----------------------------------------------------------------------------
(* The manager serving NumRequests client connections. *)

A2 == ProxyModel("A", 2, 2)
B1 == ProxyModel("B", 1, 1)

\* the pools the manager is constructed with: none (main.py's empty proxy_url
\* with no co-hosted proxy) and two upstreams
Pools == {<<>>, <<A2, B1>>}

\* the clients of the manager, <<client host, method, whether the credentials
\* of the request are valid>>: every host with and without valid credentials
ManagerClients ==
    {<<"h1", "CONNECT", TRUE>>, <<"h1", "CONNECT", FALSE>>,
     <<"h2", "GET", TRUE>>, <<"h2", "GET", FALSE>>,
     <<"h3", "GET", TRUE>>, <<"h3", "GET", FALSE>>,
     <<"h4", "CONNECT", TRUE>>, <<"h4", "CONNECT", FALSE>>}

\* the firewall and whether authentication is configured: h1 and h3 are
\* allowed, h2 is blocked, h1 and h4 need no authentication
ManagerConfigs == {<<ProxyFirewall({"h1", "h3"}, {"h2"}, {"h1", "h4"}), TRUE>>}

NoCalls == [n |-> 0]

NoProber == [pc |-> "off"]

NoEdge == <<>>

NoTunnel == [pc |-> "off"]

NoModes == [pc |-> "off"]

NoRewrite == [pc |-> "off"]

NoDirect == [pc |-> "off"]

Init ==
    /\ proxy_url \in Pools
    /\ proxy_concurrent_table = get_proxy_concurrent_table(proxy_url)
    /\ \E cfg \in ManagerConfigs : firewall = cfg[1] /\ auth = cfg[2]
    /\ clients = ManagerClients
    /\ conn = [r \in 1..NumRequests |-> NewConn]
    /\ proxy_table = <<>>
    /\ prober = NoProber
    /\ semaphore = 0
    /\ econn = NoEdge
    /\ calls = NoCalls
    /\ chosen = "none"
    /\ tunnel = NoTunnel
    /\ modes = NoModes
    /\ rewrite = NoRewrite
    /\ direct = NoDirect

Next ==
    \/ \E r \in Requests : ReadHeadersFail(r)
    \/ \E r \in Requests : FirewallReject(r)
    \/ \E r \in Requests : Drain403(r)
    \/ \E r \in Requests : AuthReject(r)
    \/ \E r \in Requests : Drain407(r)
    \/ \E r \in Requests : ChooseFails(r)
    \/ \E r \in Requests : Dispatch(r)
    \/ \E r \in Requests : ConnectFail(r)
    \/ \E r \in Requests : Drain502(r)
    \/ \E r \in Requests : ConnectOk(r)
    \/ \E r \in Requests : ForwardDrained(r)
    \/ \E r \in Requests : UpstreamResponded(r)
    \/ \E r \in Requests : StartRelay(r)
    \/ \E r \in Requests : Pipe1End(r)
    \/ \E r \in Requests : Pipe2End(r)
    \/ \E r \in Requests : RelayFinally(r)

Spec == Init /\ [][Next]_vars

----------------------------------------------------------------------------
(* Claims about the manager's connection handler, checked under Spec. *)

Dispatched(r) == conn[r].proxy # "none"

\* the requests that hold a slot of upstream u: incremented, not yet decremented
InFlight(u) ==
    {r \in Requests : conn[r].proxy = u /\ Count(conn[r].log, "inc") = 1
                                        /\ Count(conn[r].log, "dec") = 0}

\* C1: a request that is dispatched to an upstream increments that upstream's
\* counter exactly once and, by the time its handler has finished, has decremented
\* it exactly once, on every terminal path (connect failure, failure while the
\* request or CONNECT is forwarded, relay end); a request that is not dispatched
\* touches no counter; so each counter is the number of requests holding a slot.
C1_IncDecExactlyOnce ==
    /\ \A r \in Requests :
          /\ Count(conn[r].log, "inc") = (IF Dispatched(r) THEN 1 ELSE 0)
          /\ Count(conn[r].log, "dec") <= Count(conn[r].log, "inc")
          /\ conn[r].pc = "done" /\ Dispatched(r) => Count(conn[r].log, "dec") = 1
    /\ \A u \in DOMAIN proxy_concurrent_table :
          proxy_concurrent_table[u] = Cardinality(InFlight(u))

\* one request finished through a connect failure and another through the relay
C1_Witness ==
    \E r1, r2 \in Requests :
        /\ conn[r1].pc = "done" /\ conn[r1].sent = <<502>> /\ conn[r1].log = <<"inc", "connect", "dec">>
        /\ conn[r2].pc = "done" /\ conn[r2].log = <<"inc", "connect", "relay", "dec">>

\* C7: the counter is decremented for a request only after both of its relay
\* directions (pipe1 client->upstream, pipe2 upstream->client) have terminated.
C7_DecrementAfterBothPipes ==
    \A r \in Requests :
        Count(conn[r].log, "dec") > 0 =>
            conn[r].pipe1 # "running" /\ conn[r].pipe2 # "running"

\* C8: the increment for a request is applied strictly before the TCP connect to
\* the chosen upstream is started, and no upstream connection exists for a request
\* whose increment has not been applied.
C8_IncrementBeforeConnect ==
    \A r \in Requests :
        /\ Index(conn[r].log, "connect") > 0 =>
              /\ Index(conn[r].log, "inc") > 0
              /\ Index(conn[r].log, "inc") < Index(conn[r].log, "connect")
        /\ conn[r].pc = "connect" \/ conn[r].upstream # "none" =>
              Index(conn[r].log, "connect") > 0

\* a connect to the chosen upstream is pending
C8_Witness == \E r \in Requests : conn[r].pc = "connect" /\ conn[r].proxy = "B"

\* C10: every terminal path of the manager's connection handler ends with the
\* client socket closed.
C10_ClientClosedAtTerminal ==
    \A r \in Requests : conn[r].pc = "done" => conn[r].writer = "closed"

----------------------------------------------------------------------------
(* Concurrent tasks calling _update_proxy_concurrent directly: each of NumTasks *)
(* tasks issues one call, "add" or "remove", on a url of the pool; the calls    *)
(* run in any order.  calls counts, per url, the increments (inc), the          *)
(* decrements (dec) and the decrements that found the counter at 0 (floor),     *)
(* and keeps the last call with the counter before and after it.                *)

\* number of tasks that call _update_proxy_concurrent
NumTasks == 4

Urls == DOMAIN proxy_concurrent_table

NoCall == [how |-> "none", url |-> "none", before |-> 0, after |-> 0]

Call(t, how, url) ==
    /\ t \in calls.pending
    /\ proxy_concurrent_table' = update_proxy_concurrent(proxy_concurrent_table, how, url)
    /\ calls' = [pending |-> calls.pending \ {t},
                 inc |-> [calls.inc EXCEPT ![url] = @ + (IF how = "add" THEN 1 ELSE 0)],
                 dec |-> [calls.dec EXCEPT ![url] = @ + (IF how = "remove" THEN 1 ELSE 0)],
                 floor |-> [calls.floor EXCEPT ![url] =
                               @ + (IF how = "remove" /\ proxy_concurrent_table[url] = 0
                                    THEN 1 ELSE 0)],
                 last |-> [how |-> how, url |-> url,
                           before |-> proxy_concurrent_table[url],
                           after |-> proxy_concurrent_table'[url]]]
    /\ UNCHANGED <<proxy_url, proxy_table, prober, firewall, auth, clients, conn,
                   semaphore, econn, chosen, tunnel, modes, rewrite, direct>>

\* a task runs increment(url): _update_proxy_concurrent(method="add", ...)
Increment(t) == \E url \in Urls : Call(t, "add", url)

\* a task runs decrement(url): _update_proxy_concurrent(method="remove", ...)
Decrement(t) == \E url \in Urls : Call(t, "remove", url)

InitCalls ==
    /\ proxy_url = <<A2, B1>>
    /\ proxy_concurrent_table = get_proxy_concurrent_table(proxy_url)
    /\ calls = [pending |-> 1..NumTasks,
                inc |-> [u \in Urls |-> 0], dec |-> [u \in Urls |-> 0],
                floor |-> [u \in Urls |-> 0], last |-> NoCall]
    /\ firewall = NoFirewall
    /\ auth = FALSE
    /\ clients = {}
    /\ conn = <<>>
    /\ proxy_table = <<>>
    /\ prober = NoProber
    /\ semaphore = 0
    /\ econn = NoEdge
    /\ chosen = "none"
    /\ tunnel = NoTunnel
    /\ modes = NoModes
    /\ rewrite = NoRewrite
    /\ direct = NoDirect

NextCalls ==
    \/ \E t \in calls.pending : Increment(t)
    \/ \E t \in calls.pending : Decrement(t)

SpecCalls == InitCalls /\ [][NextCalls]_vars

Quiescent == calls.pending = {}

\* C2 as stated: for every sequence of increment and decrement calls, once all
\* calls have completed the counter equals max(0, increments - decrements).
C2_MaxZeroOfDifference ==
    Quiescent =>
        \A u \in Urls : proxy_concurrent_table[u] = Max(0, calls.inc[u] - calls.dec[u])

\* C2 as amended: once all calls have completed the counter equals the number of
\* increments minus the number of decrements that found the counter positive;
\* this is max(0, increments - decrements) whenever no decrement was applied to
\* the counter at 0.
C2_CountsEffectiveDecrements ==
    Quiescent =>
        \A u \in Urls :
            /\ proxy_concurrent_table[u] = calls.inc[u] - (calls.dec[u] - calls.floor[u])
            /\ calls.floor[u] = 0 =>
                  proxy_concurrent_table[u] = Max(0, calls.inc[u] - calls.dec[u])

\* all calls done: several increments and a decrement on one url, none at 0
C2_Witness ==
    /\ Quiescent
    /\ \E u \in Urls : calls.inc[u] >= 2 /\ calls.dec[u] >= 1 /\ calls.floor[u] = 0

\* C3: every counter is non-negative in every reachable state, and a decrement
\* applied to a counter at 0 leaves it at 0.
C3_NonNegativeSaturating ==
    /\ \A u \in Urls : proxy_concurrent_table[u] >= 0
    /\ calls.last.how = "remove" /\ calls.last.before = 0 => calls.last.after = 0

\* a decrement has just been applied to a counter at 0
C3_Witness == calls.last.how = "remove" /\ calls.last.before = 0

----------------------------------------------------------------------------
(* _choose_proxy as a function of the pool and the counters: the pool is any *)
(* sequence of up to MaxPool descriptors with distinct urls and any           *)
(* max_connections of MaxConnections (ProxyModel accepts 0 and negative       *)
(* values), the counters any values up to MaxCount.                           *)

\* the longest pool drawn
MaxPool == 3

\* the largest counter value drawn
MaxCount == 2

PoolUrls == <<"A", "B", "C", "D">>

MaxConnections == {-1, 0, 1, 2, 3}

ChoosePools ==
    UNION {{[i \in 1..n |-> ProxyModel(PoolUrls[i], mc[i], 2)] :
               mc \in [1..n -> MaxConnections]} : n \in 1..MaxPool}

\* a direct call of _choose_proxy
Choose ==
    /\ chosen = "none"
    /\ chosen' = choose_proxy(proxy_url, proxy_concurrent_table)
    /\ UNCHANGED <<proxy_url, proxy_concurrent_table, proxy_table, prober, firewall, auth,
                   clients, conn, semaphore, econn, calls, tunnel, modes, rewrite, direct>>

InitChoose ==
    /\ proxy_url \in ChoosePools
    /\ proxy_concurrent_table \in
           [{proxy_url[i].url : i \in 1..Len(proxy_url)} -> 0..MaxCount]
    /\ chosen = "none"
    /\ tunnel = NoTunnel
    /\ modes = NoModes
    /\ rewrite = NoRewrite
    /\ direct = NoDirect
    /\ firewall = NoFirewall
    /\ auth = FALSE
    /\ clients = {}
    /\ conn = <<>>
    /\ proxy_table = <<>>
    /\ prober = NoProber
    /\ semaphore = 0
    /\ econn = NoEdge
    /\ calls = NoCalls

NextChoose == Choose

SpecChoose == InitChoose /\ [][NextChoose]_vars

\* the quantities of the selection rule, by pool position
Current(i) == Concurrent(proxy_concurrent_table, proxy_url[i].url)

Cap(i) == Max(1, proxy_url[i].max_connections)

\* ratio(i) < ratio(j) and ratio(i) = ratio(j), ratio = current / max(1, max_connections)
RatioLt(i, j) == Current(i) * Cap(j) < Current(j) * Cap(i)

RatioEq(i, j) == Current(i) * Cap(j) = Current(j) * Cap(i)

Positions == 1..Len(proxy_url)

Least(S) == CHOOSE i \in S : \A j \in S : i <= j

\* the upstreams with ratio 0 and current < max_connections
Idle == {i \in Positions : Current(i) = 0 /\ Current(i) < proxy_url[i].max_connections}

\* the upstreams of smallest ratio
Lightest == {i \in Positions : \A j \in Positions : ~RatioLt(j, i)}

ChosenPosition == Least({i \in Positions : proxy_url[i].url = chosen})

\* C4: on a non-empty pool _choose_proxy returns the first upstream, in pool
\* order, with ratio 0 and current < max_connections if there is one, and
\* otherwise the upstream of smallest ratio, the earliest among equal ratios.
C4_ChooseEqualsReference ==
    chosen # "none" =>
        chosen = proxy_url[IF Idle # {} THEN Least(Idle) ELSE Least(Lightest)].url

\* no upstream is idle below its capacity and two upstreams tie on the smallest ratio
C4_Witness ==
    /\ chosen # "none"
    /\ Idle = {}
    /\ Cardinality(Lightest) >= 2
    /\ \E i \in Positions : Current(i) = 0

\* C5 as stated: for every pool and counters, max_connections of 0 or below
\* included, no upstream has a smaller ratio than the chosen one and no earlier
\* upstream has the same ratio (ties go to the first seen).
C5_LeastRatioFirstSeen ==
    chosen # "none" =>
        /\ ChosenPosition \in Lightest
        /\ \A j \in Positions : j < ChosenPosition => ~RatioEq(j, ChosenPosition)

\* C5 as amended: no upstream has a smaller ratio than the chosen one, and an
\* earlier upstream has the same ratio only if it is idle with max_connections of
\* 0 or below; so ties go to the first seen when every max_connections is >= 1.
C5_LeastRatioFirstSeenWithCapacity ==
    chosen # "none" =>
        /\ ChosenPosition \in Lightest
        /\ \A j \in Positions :
              j < ChosenPosition /\ RatioEq(j, ChosenPosition) =>
                  Current(j) = 0 /\ proxy_url[j].max_connections <= 0
        /\ (\A j \in Positions : proxy_url[j].max_connections >= 1) =>
              ChosenPosition = Least(Lightest)

\* a tie on a non-zero smallest ratio, in a pool with a max_connections <= 0
C5_Witness ==
    /\ chosen # "none"
    /\ \E j \in Positions : proxy_url[j].max_connections <= 0
    /\ \E j \in Positions : j # ChosenPosition /\ RatioEq(j, ChosenPosition)
    /\ Current(ChosenPosition) > 0

----------------------------------------------------------------------------
(* The health prober, ProxyManager._update_proxy: a pass (_get_proxy) probes  *)
(* every upstream and writes the latencies to proxy_table, then _order_proxy  *)
(* sorts the pool, then the task sleeps update_timeout.  Latencies are in     *)
(* milliseconds (the code rounds seconds to 3 decimals); None is unknown.     *)

\* Python's None as a latency (latencies are >= 0)
None == 0 - 1

Latencies == {5}

\* ProxyManagerConfig.bath_size
bath_size == 1000

\* sort_key with max_connections in place of -int(max_connections)
sort_key_AscendingConnections(proxy) ==
    LET latency == IF proxy.url \in DOMAIN proxy_table THEN proxy_table[proxy.url] ELSE None
    IN <<IF latency = None THEN 1 ELSE 0,
         IF latency = None THEN 0 ELSE latency,
         proxy.priority,
         proxy.max_connections>>

\* sort_key of _order_proxy
sort_key(proxy) ==
    LET latency == IF proxy.url \in DOMAIN proxy_table THEN proxy_table[proxy.url] ELSE None
    IN <<IF latency = None THEN 1 ELSE 0,
         IF latency = None THEN 0 ELSE latency,
         proxy.priority,
         0 - proxy.max_connections>>

\* tuple comparison k1 < k2
RECURSIVE KeyLessFrom(_, _, _)
KeyLessFrom(k1, k2, i) ==
    IF i > Len(k1) THEN FALSE
    ELSE IF k1[i] # k2[i] THEN k1[i] < k2[i]
    ELSE KeyLessFrom(k1, k2, i + 1)

KeyLess(k1, k2) == KeyLessFrom(k1, k2, 1)

\* list.sort(key=sort_key) is stable: x goes after the elements whose key is not greater
SortInsert(sorted, x) ==
    LET k == Cardinality({i \in 1..Len(sorted) : ~KeyLess(sort_key(x), sort_key(sorted[i]))})
    IN SubSeq(sorted, 1, k) \o <<x>> \o SubSeq(sorted, k + 1, Len(sorted))

RECURSIVE SortFrom(_, _, _)
SortFrom(seq, i, sorted) ==
    IF i > Len(seq) THEN sorted
    ELSE CHOOSE result \in {SortFrom(seq, i + 1, inserted) :
                               inserted \in {SortInsert(sorted, seq[i])}} : TRUE

Sorted(seq) == SortFrom(seq, 1, <<>>)

proberFrame == <<proxy_concurrent_table, firewall, auth, clients, conn, semaphore, econn,
                 calls, chosen, tunnel, modes, rewrite, direct>>

\* _get_proxy, lines 341-352: a health-check task is created per upstream and the
\* pass waits for all of them (a pool shorter than bath_size: one gather)
StartPass ==
    /\ prober.pc = "sleep"
    /\ 0 < Len(proxy_url) /\ Len(proxy_url) < bath_size
    /\ prober' = [pc |-> "gather"]
    /\ UNCHANGED <<proxy_url, proxy_table, proberFrame>>

\* _health_check and _process_update_task, lines 281-307 and 323-339: every probe
\* has returned its latency (None when the connect failed) and each result is
\* written to proxy_table
ProcessUpdate ==
    /\ prober.pc = "gather"
    /\ \E results \in [{proxy_url[i].url : i \in 1..Len(proxy_url)} -> Latencies \cup {None}] :
         proxy_table' = results
    /\ prober' = [pc |-> "order"]
    /\ UNCHANGED <<proxy_url, proberFrame>>

\* _order_proxy, lines 376-405, then the sleep of _update_proxy, line 374
OrderProxy ==
    /\ prober.pc = "order"
    /\ proxy_url' = Sorted(proxy_url)
    /\ prober' = [pc |-> "sleep"]
    /\ UNCHANGED <<proxy_table, proberFrame>>

----------------------------------------------------------------------------
(* Scenario 5 of the specification: the pool [A(max_connections=2),          *)
(* B(max_connections=2)], both counters 0, and ScenarioRequests requests whose *)
(* dispatches interleave with each other, with failing connects and with the   *)
(* health prober reordering the pool.                                          *)

\* the requests of the scenario
ScenarioRequests == 4

InitScenario ==
    /\ proxy_url = <<ProxyModel("A", 2, 2), ProxyModel("B", 2, 2)>>
    /\ proxy_concurrent_table = get_proxy_concurrent_table(proxy_url)
    /\ proxy_table = <<>>
    /\ prober = [pc |-> "sleep"]
    /\ firewall = NoFirewall
    /\ auth = FALSE
    /\ clients = {<<"h3", "GET", TRUE>>}
    /\ conn = [r \in 1..ScenarioRequests |-> NewConn]
    /\ semaphore = 0
    /\ econn = NoEdge
    /\ calls = NoCalls
    /\ chosen = "none"
    /\ tunnel = NoTunnel
    /\ modes = NoModes
    /\ rewrite = NoRewrite
    /\ direct = NoDirect

NextScenario ==
    \/ \E r \in Requests : Dispatch(r)
    \/ \E r \in Requests : ConnectFail(r)
    \/ \E r \in Requests : Drain502(r)
    \/ StartPass
    \/ ProcessUpdate
    \/ OrderProxy

SpecScenario == InitScenario /\ [][NextScenario]_vars

NoneCompleted == \A r \in Requests : Count(conn[r].log, "dec") = 0

NumDispatched == Cardinality({r \in Requests : Dispatched(r)})

\* C6: with pool [A(2), B(2)] and both counters at 0, while no dispatched request
\* has completed the first four dispatches never take a counter above its
\* upstream's max_connections, and once four requests are dispatched the counters
\* are exactly A:2, B:2, whatever the order of the dispatches and of the pool.
C6_FourDispatchesFillBoth ==
    NoneCompleted /\ NumDispatched <= 4 =>
        /\ \A i \in 1..Len(proxy_url) :
              proxy_concurrent_table[proxy_url[i].url] <= proxy_url[i].max_connections
        /\ NumDispatched = 4 =>
              proxy_concurrent_table["A"] = 2 /\ proxy_concurrent_table["B"] = 2

\* four requests dispatched, none completed, the pool reordered by the prober
C6_Witness ==
    /\ NoneCompleted
    /\ NumDispatched = 4
    /\ proxy_url[1].url = "B"

----------------------------------------------------------------------------
(* The asynchronous edge proxy, Proxy._handle_client_request and             *)
(* Proxy._tunnel (app/core/proxy.py).                                         *)

\* number of client connections the edge proxy accepts
NumClients == 2

\* Proxy.max_connections, the capacity of Proxy._semaphore
edge_max_connections == 1

\* the number of reads the rest of the request body may take
MaxBodyReads == 1

\* in sent, the octets of the destination's response relayed to the client (the
\* other entries are status codes)
UpstreamData == 0

EClients == DOMAIN econn

NewEConn ==
    [pc |-> "accept", client_host |-> "?", method |-> "?", headers |-> "none",
     holds |-> FALSE, writer |-> "open", dest |-> "none", has_responded |-> FALSE,
     sent |-> <<>>, response |-> NoResponse, task_up |-> "none", task_down |-> "none", remaining |-> 0,
     failure |-> "none", raised |-> FALSE]

ESet(c, e) == econn' = [econn EXCEPT ![c] = e]

edgeFrame == <<proxy_url, proxy_concurrent_table, proxy_table, prober, firewall, auth,
               clients, conn, calls, chosen, tunnel, modes, rewrite, direct>>

\* leaving `async with self._semaphore`: the slot is released
Release(e) == [e EXCEPT !.pc = "done", !.holds = FALSE]

\* the finally of lines 588-593: the client writer is closed
CloseWriter(e) == [e EXCEPT !.writer = "closed"]

\* the finally of lines 465-470 and 582-587: the destination writer is closed
CloseDest(e) == [e EXCEPT !.dest = "closed"]

\* lines 362-381: a slot is acquired; the firewall rejects the peer: 403 is written
EAdmitReject(c) ==
    /\ econn[c].pc = "accept"
    /\ semaphore > 0
    /\ \E cl \in clients :
         /\ ~FirewallPass(cl[1])
         /\ ESet(c, [econn[c] EXCEPT !.pc = "drain_403", !.client_host = cl[1],
                                     !.holds = TRUE, !.sent = Append(@, 403),
            !.response = ProxyResponse(403, <<>>, CONNECTION_CLOSE)])
    /\ semaphore' = semaphore - 1
    /\ UNCHANGED edgeFrame

\* lines 381-388: the finally of the 403 path closes the client; return
EDrain403(c) ==
    /\ econn[c].pc = "drain_403"
    /\ \E ok \in BOOLEAN :
         ESet(c, Release(CloseWriter([econn[c] EXCEPT !.raised = ~ok])))
    /\ semaphore' = semaphore + 1
    /\ UNCHANGED edgeFrame

\* EAdmit without the semaphore: the handler starts whatever the number of
\* handlers that are running
EAdmit_NoSemaphore(c) ==
    /\ econn[c].pc = "accept"
    /\ \E cl \in clients :
         /\ FirewallPass(cl[1])
         /\ ESet(c, [econn[c] EXCEPT !.pc = "read_headers", !.client_host = cl[1],
                                     !.holds = TRUE])
    /\ semaphore' = semaphore - 1
    /\ UNCHANGED edgeFrame

\* lines 362-393: a slot is acquired, the firewall lets the peer through and the
\* handler starts to read the request
EAdmit(c) ==
    /\ econn[c].pc = "accept"
    /\ semaphore > 0
    /\ \E cl \in clients :
         /\ FirewallPass(cl[1])
         /\ ESet(c, [econn[c] EXCEPT !.pc = "read_headers", !.client_host = cl[1],
                                     !.holds = TRUE])
    /\ semaphore' = semaphore - 1
    /\ UNCHANGED edgeFrame

\* lines 397-403: a read of the header loop times out: 408 is written and drained
EReadTimeout(c) ==
    /\ econn[c].pc = "read_headers"
    /\ ESet(c, [econn[c] EXCEPT !.pc = "drain_408", !.sent = Append(@, 408),
            !.response = ProxyResponse(408, <<>>, CONNECTION_CLOSE)])
    /\ UNCHANGED <<semaphore, edgeFrame>>

\* lines 403-406: return from inside the semaphore block, before the try whose
\* finally closes the writer
EDrain408(c) ==
    /\ econn[c].pc = "drain_408"
    /\ ESet(c, Release(econn[c]))
    /\ semaphore' = semaphore + 1
    /\ UNCHANGED edgeFrame

\* how the header loop of lines 390-396 and 407-408 ended without a timeout: with
\* the terminator in the buffer, or on EOF or an error with a partial buffer
HeaderEnds == {"complete", "partial"}

\* lines 412-427: authentication is required and fails: 407 is written and drained
EAuthReject(c) ==
    /\ econn[c].pc = "read_headers"
    /\ \E h \in HeaderEnds, cl \in clients :
         /\ cl[1] = econn[c].client_host
         /\ AuthFails(econn[c].client_host, cl[3])
         /\ ESet(c, [econn[c] EXCEPT !.pc = "drain_407", !.headers = h,
                                     !.sent = Append(@, 407),
            !.response = ProxyResponse(407, <<>>, CONNECTION_CLOSE)])
    /\ UNCHANGED <<semaphore, edgeFrame>>

\* lines 427-428 and 588-593: return (or the drain raises); the finally closes
EDrain407(c) ==
    /\ econn[c].pc = "drain_407"
    /\ \E ok \in BOOLEAN :
         ESet(c, Release(CloseWriter([econn[c] EXCEPT !.raised = ~ok])))
    /\ semaphore' = semaphore + 1
    /\ UNCHANGED edgeFrame

\* EConnectTunnel with the 200 line written before the connect
EConnectTunnel_EarlyEstablished(c) ==
    /\ econn[c].pc = "read_headers"
    /\ \E h \in HeaderEnds, cl \in clients :
         /\ cl[1] = econn[c].client_host
         /\ cl[2] = "CONNECT"
         /\ ~AuthFails(econn[c].client_host, cl[3])
         /\ ESet(c, [econn[c] EXCEPT !.pc = "connect_tunnel", !.headers = h,
                                     !.method = "CONNECT", !.sent = Append(@, 200)])
    /\ UNCHANGED <<semaphore, edgeFrame>>

\* lines 430-444: a CONNECT request: the connect to the target is started
EConnectTunnel(c) ==
    /\ econn[c].pc = "read_headers"
    /\ \E h \in HeaderEnds, cl \in clients :
         /\ cl[1] = econn[c].client_host
         /\ cl[2] = "CONNECT"
         /\ ~AuthFails(econn[c].client_host, cl[3])
         /\ ESet(c, [econn[c] EXCEPT !.pc = "connect_tunnel", !.headers = h,
                                     !.method = "CONNECT"])
    /\ UNCHANGED <<semaphore, edgeFrame>>

\* lines 473-488: another method, and the host extracted from the request is
\* empty or blank: 400
EBadHost(c) ==
    /\ econn[c].pc = "read_headers"
    /\ \E h \in HeaderEnds, cl \in clients :
         /\ cl[1] = econn[c].client_host
         /\ cl[2] # "CONNECT"
         /\ ~AuthFails(econn[c].client_host, cl[3])
         /\ ESet(c, [econn[c] EXCEPT !.pc = "drain_final", !.headers = h,
                                     !.method = cl[2], !.sent = Append(@, 400),
            !.response = ProxyResponse(400, <<>>, CONNECTION_CLOSE)])
    /\ UNCHANGED <<semaphore, edgeFrame>>

\* line 477 and helpers.py line 19: another method, and the port of the Host header
\* is not a number: int() raises inside the outer try, whose finally closes the
\* writer; the error leaves the handler
EHostPortError(c) ==
    /\ econn[c].pc = "read_headers"
    /\ \E cl \in clients :
         /\ cl[1] = econn[c].client_host
         /\ cl[2] # "CONNECT"
         /\ ~AuthFails(econn[c].client_host, cl[3])
         /\ ESet(c, Release(CloseWriter([econn[c] EXCEPT !.headers = "complete",
                                                         !.method = cl[2],
                                                         !.raised = TRUE])))
    /\ semaphore' = semaphore + 1
    /\ UNCHANGED edgeFrame

\* lines 473-493: another method with a host: the connect to it is started
EConnectPlain(c) ==
    /\ econn[c].pc = "read_headers"
    /\ \E h \in HeaderEnds, cl \in clients :
         /\ cl[1] = econn[c].client_host
         /\ cl[2] # "CONNECT"
         /\ ~AuthFails(econn[c].client_host, cl[3])
         /\ ESet(c, [econn[c] EXCEPT !.pc = "connect_plain", !.headers = h,
                                     !.method = cl[2]])
    /\ UNCHANGED <<semaphore, edgeFrame>>

\* lines 445-454 and 494-503: the connect fails or times out: 502 is written
EConnectFail(c) ==
    /\ econn[c].pc \in {"connect_tunnel", "connect_plain"}
    /\ ESet(c, [econn[c] EXCEPT !.pc = "drain_final", !.sent = Append(@, 502),
            !.response = ProxyResponse(502, <<>>, CONNECTION_CLOSE)])
    /\ UNCHANGED <<semaphore, edgeFrame>>

\* after the drain of a 400 or 502 (its errors are swallowed): return, finally
EDrainFinal(c) ==
    /\ econn[c].pc = "drain_final"
    /\ ESet(c, Release(CloseWriter(econn[c])))
    /\ semaphore' = semaphore + 1
    /\ UNCHANGED edgeFrame

\* lines 442-458: the connect succeeds: the 200 line of the tunnel is written
ETunnelOk(c) ==
    /\ econn[c].pc = "connect_tunnel"
    /\ ESet(c, [econn[c] EXCEPT !.pc = "drain_200", !.dest = "open",
                                !.sent = Append(@, 200)])
    /\ UNCHANGED <<semaphore, edgeFrame>>

\* lines 461-464 and 618-623: has_responded is set, the two relay tasks are
\* created and the handler waits for the first of them
ETunnelStart(c) ==
    /\ econn[c].pc = "drain_200"
    /\ ESet(c, [econn[c] EXCEPT !.pc = "tunnel", !.has_responded = TRUE,
                                !.task_up = "running", !.task_down = "running"])
    /\ UNCHANGED <<semaphore, edgeFrame>>

\* lines 602-616, _relay(client_reader, dest_writer): EOF, a timeout or an error
\* ends the loop
ERelayUpEnd(c) ==
    /\ econn[c].pc \in {"tunnel", "cancelling"}
    /\ econn[c].task_up = "running"
    /\ ESet(c, [econn[c] EXCEPT !.task_up = "done"])
    /\ UNCHANGED <<semaphore, edgeFrame>>

\* lines 602-616, _relay(dest_reader, client_writer)
ERelayDownEnd(c) ==
    /\ econn[c].pc \in {"tunnel", "cancelling"}
    /\ econn[c].task_down = "running"
    /\ ESet(c, [econn[c] EXCEPT !.task_down = "done"])
    /\ UNCHANGED <<semaphore, edgeFrame>>

\* lines 605-612, _relay(dest_reader, client_writer): octets read from the
\* destination are written to the client (as for a plain response, sent records
\* the first of these writes)
ERelayDown(c) ==
    /\ econn[c].pc \in {"tunnel", "cancelling"}
    /\ econn[c].task_down = "running"
    /\ Count(econn[c].sent, UpstreamData) = 0
    /\ ESet(c, [econn[c] EXCEPT !.sent = Append(@, UpstreamData)])
    /\ UNCHANGED <<semaphore, edgeFrame>>

\* lines 621-628 if the wait were for both tasks (ALL_COMPLETED): nothing is done
\* while a task is pending
ECancelPending_WaitAll(c) ==
    /\ econn[c].pc = "tunnel"
    /\ "done" \in {econn[c].task_up, econn[c].task_down}
    /\ "running" \in {econn[c].task_up, econn[c].task_down}
    /\ ESet(c, econn[c])
    /\ UNCHANGED <<semaphore, edgeFrame>>

\* lines 621-628: the wait returns with one task pending: it is cancelled and
\* awaited
ECancelPending(c) ==
    /\ econn[c].pc = "tunnel"
    /\ "done" \in {econn[c].task_up, econn[c].task_down}
    /\ "running" \in {econn[c].task_up, econn[c].task_down}
    /\ ESet(c, [econn[c] EXCEPT !.pc = "cancelling"])
    /\ UNCHANGED <<semaphore, edgeFrame>>

\* line 628: the pending task ends cancelled; `except Exception` does not catch
\* CancelledError, which leaves _tunnel before lines 631-640 and passes through
\* the finally of 465-470 and of 588-593, which close both sockets
ECancelled(c) ==
    /\ econn[c].pc = "cancelling"
    /\ "running" \in {econn[c].task_up, econn[c].task_down}
    /\ ESet(c, Release(CloseWriter(CloseDest(
            [econn[c] EXCEPT !.task_up = IF @ = "running" THEN "cancelled" ELSE @,
                             !.task_down = IF @ = "running" THEN "cancelled" ELSE @,
                             !.raised = TRUE]))))
    /\ semaphore' = semaphore + 1
    /\ UNCHANGED edgeFrame

\* lines 631-640, 465-471, 588-593: no task is left to cancel, or the cancelled
\* one ended by itself (wait_for may return the read that completed with the
\* cancellation): both sockets are closed and the handler returns
ETunnelClose(c) ==
    /\ econn[c].pc \in {"tunnel", "cancelling"}
    /\ econn[c].task_up = "done"
    /\ econn[c].task_down = "done"
    /\ ESet(c, Release(CloseWriter(CloseDest(econn[c]))))
    /\ semaphore' = semaphore + 1
    /\ UNCHANGED edgeFrame

\* lines 491-521 and 537-542: the connect succeeds, the rewritten request is
\* written to the destination and drained; remaining is what Content-Length
\* says is still to come (0 when the headers have no terminator)
EPlainOk(c) ==
    /\ econn[c].pc = "connect_plain"
    /\ \E n \in 0..MaxBodyReads :
         /\ econn[c].headers = "partial" => n = 0
         /\ ESet(c, [econn[c] EXCEPT !.pc = IF n > 0 THEN "read_body"
                                                    ELSE "read_response",
                                     !.dest = "open", !.remaining = n])
    /\ UNCHANGED <<semaphore, edgeFrame>>

\* lines 523-534: a chunk of the body is read from the client and forwarded
EBodyChunk(c) ==
    /\ econn[c].pc = "read_body"
    /\ econn[c].remaining > 0
    /\ ESet(c, [econn[c] EXCEPT !.remaining = @ - 1,
                                !.pc = IF econn[c].remaining = 1
                                       THEN "read_response" ELSE "read_body"])
    /\ UNCHANGED <<semaphore, edgeFrame>>

\* lines 527-528: the client ends the body early
EBodyEOF(c) ==
    /\ econn[c].pc = "read_body"
    /\ ESet(c, [econn[c] EXCEPT !.pc = "read_response"])
    /\ UNCHANGED <<semaphore, edgeFrame>>

\* lines 544-554: data of the response is relayed to the client
EResponseData(c) ==
    /\ econn[c].pc = "read_response"
    /\ ~econn[c].has_responded
    /\ ESet(c, [econn[c] EXCEPT !.has_responded = TRUE, !.sent = Append(@, UpstreamData)])
    /\ UNCHANGED <<semaphore, edgeFrame>>

\* lines 546-547, 582-593: the destination ends the response
EResponseEOF(c) ==
    /\ econn[c].pc = "read_response"
    /\ ESet(c, Release(CloseWriter(CloseDest(econn[c]))))
    /\ semaphore' = semaphore + 1
    /\ UNCHANGED edgeFrame

\* ErrorResponse without the has_responded test
ErrorResponse_Always(e, code) ==
    [e EXCEPT !.sent = Append(@, code),
              !.response = ProxyResponse(code, <<>>, CONNECTION_CLOSE)]

\* the error response of lines 555-581: written only before has_responded
ErrorResponse(e, code) ==
    IF e.has_responded THEN e
    ELSE [e EXCEPT !.sent = Append(@, code),
                   !.response = ProxyResponse(code, <<>>, CONNECTION_CLOSE)]

\* lines 555-566, 582-593: a read of the body or of the response times out
EForwardTimeout(c) ==
    /\ econn[c].pc \in {"read_body", "read_response"}
    /\ ESet(c, Release(CloseWriter(CloseDest(
            ErrorResponse([econn[c] EXCEPT !.failure = "timeout"], 504)))))
    /\ semaphore' = semaphore + 1
    /\ UNCHANGED edgeFrame

\* lines 567-581, 582-593: a read of the body or of the response fails
EForwardError(c) ==
    /\ econn[c].pc \in {"read_body", "read_response"}
    /\ ESet(c, Release(CloseWriter(CloseDest(
            ErrorResponse([econn[c] EXCEPT !.failure = "error"], 502)))))
    /\ semaphore' = semaphore + 1
    /\ UNCHANGED edgeFrame

\* the clients of the edge proxy: those of the manager
EdgeClients == ManagerClients

\* Proxy.__init__ and _run (lines 327-352): the semaphore is full, no handler
\* has started; the firewall and the authentication are configured
InitEdge ==
    /\ semaphore = edge_max_connections
    /\ econn = [c \in 1..NumClients |-> NewEConn]
    /\ \E cfg \in ManagerConfigs :
         /\ firewall = cfg[1]
         /\ auth = cfg[2]
    /\ clients = EdgeClients
    /\ proxy_url = <<>>
    /\ proxy_concurrent_table = <<>>
    /\ proxy_table = <<>>
    /\ prober = NoProber
    /\ conn = <<>>
    /\ calls = NoCalls
    /\ chosen = NoUpstream
    /\ tunnel = NoTunnel
    /\ modes = NoModes
    /\ rewrite = NoRewrite
    /\ direct = NoDirect

NextEdge ==
    \/ \E c \in EClients : EAdmitReject(c)
    \/ \E c \in EClients : EDrain403(c)
    \/ \E c \in EClients : EAdmit(c)
    \/ \E c \in EClients : EReadTimeout(c)
    \/ \E c \in EClients : EDrain408(c)
    \/ \E c \in EClients : EAuthReject(c)
    \/ \E c \in EClients : EDrain407(c)
    \/ \E c \in EClients : EConnectTunnel(c)
    \/ \E c \in EClients : EBadHost(c)
    \/ \E c \in EClients : EHostPortError(c)
    \/ \E c \in EClients : EConnectPlain(c)
    \/ \E c \in EClients : EConnectFail(c)
    \/ \E c \in EClients : EDrainFinal(c)
    \/ \E c \in EClients : ETunnelOk(c)
    \/ \E c \in EClients : ETunnelStart(c)
    \/ \E c \in EClients : ERelayUpEnd(c)
    \/ \E c \in EClients : ERelayDownEnd(c)
    \/ \E c \in EClients : ERelayDown(c)
    \/ \E c \in EClients : ECancelPending(c)
    \/ \E c \in EClients : ECancelled(c)
    \/ \E c \in EClients : ETunnelClose(c)
    \/ \E c \in EClients : EPlainOk(c)
    \/ \E c \in EClients : EBodyChunk(c)
    \/ \E c \in EClients : EBodyEOF(c)
    \/ \E c \in EClients : EResponseData(c)
    \/ \E c \in EClients : EResponseEOF(c)
    \/ \E c \in EClients : EForwardTimeout(c)
    \/ \E c \in EClients : EForwardError(c)

SpecEdge == InitEdge /\ [][NextEdge]_vars

\* C9: whenever a handler of the edge proxy has ended, by return or by an
\* error, the client writer is closed, the destination writer (if one was
\* opened) is closed and the semaphore slot is released.
C9_TerminalClosesAndReleases ==
    \A c \in EClients :
        econn[c].pc = "done" =>
            /\ econn[c].writer = "closed"
            /\ econn[c].dest # "open"
            /\ ~econn[c].holds

\* the handlers that are inside `async with self._semaphore`
Admitted == {c \in EClients : econn[c].pc \notin {"accept", "done"}}

\* the handlers that wait for a slot
Waiting == {c \in EClients : econn[c].pc = "accept"}

\* C11: at most max_connections handlers of the edge proxy are past admission;
\* a client that waits for a slot is neither closed nor answered, and can be
\* admitted as soon as a slot is free.
C11_AdmissionBounded ==
    /\ Cardinality(Admitted) <= edge_max_connections
    /\ semaphore = edge_max_connections - Cardinality(Admitted)
    /\ \A c \in Waiting :
          /\ econn[c].writer = "open"
          /\ econn[c].sent = <<>>
          /\ semaphore > 0 => ENABLED (EAdmit(c) \/ EAdmitReject(c))

\* a client waits while the semaphore is full and an admitted handler relays
\* its tunnel
C11_Witness ==
    /\ semaphore = 0
    /\ Waiting # {}
    /\ \E c \in Admitted : econn[c].pc = "tunnel"

----------------------------------------------------------------------------
(* The 407 response.                                                          *)

\* the response r has a header line name: value
HeaderIs(r, name, value) ==
    \E i \in 1..Len(r.headers) : r.headers[i] = <<name, value>>

\* what the specification requires of a 407
Complete407(r) ==
    /\ r.status_code = 407
    /\ HeaderIs(r, "Proxy-Authenticate", "Basic realm=\"Proxy\"")
    /\ HeaderIs(r, "Content-Type", "text/plain; charset=utf-8")
    /\ HeaderIs(r, "Connection", "close")
    /\ r.body = ProxyAuthenticationRequired

\* C12: a 407 written by the manager carries Proxy-Authenticate, Content-Type,
\* Connection: close and the body 'Proxy Authentication Required'.
C12_Manager407Complete ==
    \A r \in Requests :
        conn[r].response.status_code = 407 => Complete407(conn[r].response)

----------------------------------------------------------------------------
(* Policy order in the manager.                                               *)

\* the request got to the policy check with the headers it read
PolicyChecked(r) == conn[r].credentials # "?"

\* C13: a request whose client host verify rejects gets 403 and nothing else,
\* no upstream is chosen or connected for it, whether or not the host is in
\* no_auth_required and whatever its credentials; a request that fails
\* authentication (its host not in no_auth_required) is never dispatched.
C13_FirewallBeforeAuth ==
    \A r \in Requests :
        PolicyChecked(r) =>
            /\ ~verify(firewall, conn[r].client_host) =>
                  /\ conn[r].sent = <<403>>
                  /\ conn[r].proxy = "none"
                  /\ conn[r].upstream = "none"
                  /\ conn[r].log = <<>>
            /\ AuthFails(conn[r].client_host, conn[r].credentials = "valid") =>
                  /\ ~Dispatched(r)
                  /\ conn[r].upstream = "none"
                  /\ conn[r].log = <<>>

\* a host in no_auth_required that verify rejects has been answered, with
\* valid credentials, and another request has failed authentication
C13_Witness ==
    \E r1, r2 \in Requests :
        /\ conn[r1].pc = "done"
        /\ is_no_auth_required(firewall, conn[r1].client_host)
        /\ ~verify(firewall, conn[r1].client_host)
        /\ conn[r1].credentials = "valid"
        /\ conn[r2].pc = "done"
        /\ conn[r2].sent = <<407>>

----------------------------------------------------------------------------
(* Status responses of the edge proxy and the octets already sent.            *)

\* entries of sent that come from the destination side: the 200 line of a
\* tunnel and relayed response octets
FromUpstream == {200, UpstreamData}

\* C14: in the edge proxy no 502 or 504 is written to a client after the 200
\* Connection Established line or any octet of the upstream's response; a
\* failure after that only closes the connection.
C14_NoStatusAfterResponse ==
    \A c \in EClients :
        \A i, j \in 1..Len(econn[c].sent) :
            (i < j /\ econn[c].sent[i] \in FromUpstream) =>
                econn[c].sent[j] \notin {502, 504}

\* a forward failed after response octets had been relayed, and the handler
\* ended with both sockets closed
C14_Witness ==
    \E c \in EClients :
        /\ econn[c].pc = "done"
        /\ econn[c].failure # "none"
        /\ econn[c].sent = <<UpstreamData>>
        /\ econn[c].writer = "closed"
        /\ econn[c].dest = "closed"

----------------------------------------------------------------------------
(* The octets of one CONNECT tunnel through the edge proxy.  The client's     *)
(* octets after the CRLFCRLF of its CONNECT request are numbered 1, 2, ... in *)
(* the order it sends them, and so are the destination's.  client_sent counts *)
(* the client's octets that have arrived, client_read those the proxy has     *)
(* read; request_tail is what the header loop read past the terminator.       *)

\* the octets each side sends through the tunnel
MaxOctets == 2

tunnelFrame == <<proxy_url, proxy_concurrent_table, proxy_table, prober, firewall, auth,
                 clients, conn, semaphore, econn, calls, chosen, modes, rewrite, direct>>

\* octets a+1 .. b of a stream
Octets(a, b) == [i \in 1..(b - a) |-> a + i]

\* the client sends its next octet; nothing makes it wait for the 200 line
TClientSends ==
    /\ tunnel.pc \in {"read_headers", "connect", "tunnel"}
    /\ tunnel.client_sent < MaxOctets
    /\ tunnel' = [tunnel EXCEPT !.client_sent = @ + 1]
    /\ UNCHANGED tunnelFrame

\* proxy.py lines 390-396: the read(1024) that brings the end of the headers
\* returns what has arrived after them as well, and all of it goes to request
THeadersRead ==
    /\ tunnel.pc = "read_headers"
    /\ \E k \in 0..(tunnel.client_sent - tunnel.client_read) :
         tunnel' = [tunnel EXCEPT !.pc = "connect",
                                  !.request_tail = Octets(tunnel.client_read,
                                                          tunnel.client_read + k),
                                  !.client_read = @ + k]
    /\ UNCHANGED tunnelFrame

\* lines 432-464: target from the request line, connect, the 200 line, _tunnel;
\* nothing of request is written to dest_writer
TConnected ==
    /\ tunnel.pc = "connect"
    /\ tunnel' = [tunnel EXCEPT !.pc = "tunnel"]
    /\ UNCHANGED tunnelFrame

\* the destination sends its next octet
TDestSends ==
    /\ tunnel.pc = "tunnel"
    /\ tunnel.dest_sent < MaxOctets
    /\ tunnel' = [tunnel EXCEPT !.dest_sent = @ + 1]
    /\ UNCHANGED tunnelFrame

\* lines 602-612, _relay(client_reader, dest_writer): a read returns some of
\* what has arrived and it is written to the destination
TRelayUp ==
    /\ tunnel.pc = "tunnel"
    /\ \E k \in 1..(tunnel.client_sent - tunnel.client_read) :
         tunnel' = [tunnel EXCEPT !.to_dest = @ \o Octets(tunnel.client_read,
                                                          tunnel.client_read + k),
                                  !.client_read = @ + k]
    /\ UNCHANGED tunnelFrame

\* lines 602-612, _relay(dest_reader, client_writer)
TRelayDown ==
    /\ tunnel.pc = "tunnel"
    /\ \E k \in 1..(tunnel.dest_sent - tunnel.dest_read) :
         tunnel' = [tunnel EXCEPT !.to_client = @ \o Octets(tunnel.dest_read,
                                                            tunnel.dest_read + k),
                                  !.dest_read = @ + k]
    /\ UNCHANGED tunnelFrame

\* lines 606-607, 613-616, 621-640: EOF, a timeout or an error ends the tunnel
TTunnelEnds ==
    /\ tunnel.pc = "tunnel"
    /\ tunnel' = [tunnel EXCEPT !.pc = "done"]
    /\ UNCHANGED tunnelFrame

InitTunnel ==
    /\ tunnel = [pc |-> "read_headers", client_sent |-> 0, client_read |-> 0,
                 request_tail |-> <<>>, to_dest |-> <<>>,
                 dest_sent |-> 0, dest_read |-> 0, to_client |-> <<>>]
    /\ proxy_url = <<>>
    /\ proxy_concurrent_table = <<>>
    /\ proxy_table = <<>>
    /\ prober = NoProber
    /\ firewall = NoFirewall
    /\ auth = FALSE
    /\ clients = {}
    /\ conn = <<>>
    /\ semaphore = 0
    /\ econn = NoEdge
    /\ calls = NoCalls
    /\ chosen = NoUpstream
    /\ modes = NoModes
    /\ rewrite = NoRewrite
    /\ direct = NoDirect

NextTunnel ==
    \/ TClientSends
    \/ THeadersRead
    \/ TConnected
    \/ TDestSends
    \/ TRelayUp
    \/ TRelayDown
    \/ TTunnelEnds

SpecTunnel == InitTunnel /\ [][NextTunnel]_vars

\* s is a prefix of the stream 1, 2, ...
IsPrefixOfStream(s) == \A i \in 1..Len(s) : s[i] = i

\* C15: what the proxy has written to the destination is a prefix of the
\* octets the client sent after its CONNECT headers, and what it has written
\* to the client after the 200 line is a prefix of the destination's octets.
C15_TunnelVerbatim ==
    /\ IsPrefixOfStream(tunnel.to_dest)
    /\ IsPrefixOfStream(tunnel.to_client)

----------------------------------------------------------------------------
(* The end of a relay.                                                        *)

\* C16: when the manager's handler has gone on past its relay (the finally has
\* run), neither pipe is still running and both sockets are closed.
C16_RelayStoppedBeforeProceeding ==
    \A r \in Requests :
        (conn[r].pc = "done" /\ Count(conn[r].log, "relay") = 1) =>
            /\ conn[r].pipe1 # "running"
            /\ conn[r].pipe2 # "running"
            /\ conn[r].writer = "closed"
            /\ conn[r].upstream = "closed"

----------------------------------------------------------------------------
(* The egress rewrite, strip_proxy_authorization_header and                   *)
(* ensure_connection_close_header (app/utils/helpers.py).  A request is its   *)
(* request line, its header lines <<name, value>> (the line name: value),     *)
(* whether the CRLFCRLF terminator is there (sep) and what follows it.        *)

\* the longest header block drawn
MaxHeaders == 3

HeaderNames ==
    {"Proxy-Authorization", "proxy-authorization", "Proxy-Connection",
     "Connection", "CONNECTION", "X-Connection", "Host"}

\* bytes.lower() of a header name
lower(name) ==
    CASE name \in {"Proxy-Authorization", "proxy-authorization"} -> "proxy-authorization"
      [] name = "Proxy-Connection" -> "proxy-connection"
      [] name \in {"Connection", "CONNECTION"} -> "connection"
      [] name = "X-Connection" -> "x-connection"
      [] name = "Host" -> "host"

HeaderLines == {<<name, "a">> : name \in HeaderNames} \cup {<<"Connection", "close">>}

\* line.lower().startswith(prefix + b":"), for a line name: value
startswith(line, prefix) == lower(line[1]) = prefix

RewriteInputs ==
    {[request_line |-> "GET http://h/ HTTP/1.1", headers |-> h, sep |-> sp, body |-> b] :
        h \in UNION {[1..n -> HeaderLines] : n \in 0..MaxHeaders},
        sp \in BOOLEAN, b \in {"", "body"}}

\* the filter of helpers.py lines 57-59
NotProxyAuthorization(line) == ~startswith(line, "proxy-authorization")

\* helpers.py lines 53-62
strip_proxy_authorization_header(request) ==
    [request EXCEPT !.headers = SelectSeq(@, NotProxyAuthorization)]

\* the filter of helpers.py lines 85-91
NotConnection(line) ==
    ~startswith(line, "proxy-connection") /\ ~startswith(line, "connection")

\* ensure_connection_close_header keeping the Connection lines it finds
ensure_connection_close_header_Keep(request) ==
    IF ~request.sep THEN request
    ELSE [request EXCEPT !.headers = Append(@, <<"Connection", "close">>)]

\* helpers.py lines 65-99
ensure_connection_close_header(request) ==
    IF ~request.sep THEN request
    ELSE [request EXCEPT !.headers =
              Append(SelectSeq(@, NotConnection), <<"Connection", "close">>)]

rewriteFrame == <<proxy_url, proxy_concurrent_table, proxy_table, prober, firewall, auth,
                  clients, conn, semaphore, econn, calls, chosen, tunnel, modes, direct>>

\* proxy.py lines 506-507
Rewrite ==
    /\ rewrite.pc = "request"
    /\ rewrite' = [rewrite EXCEPT
           !.pc = "done",
           !.forward_request = ensure_connection_close_header(
                                   strip_proxy_authorization_header(rewrite.request))]
    /\ UNCHANGED rewriteFrame

InitRewrite ==
    /\ \E request \in RewriteInputs :
         /\ ~request.sep => request.body = ""
         /\ rewrite = [pc |-> "request", request |-> request, forward_request |-> request]
    /\ proxy_url = <<>>
    /\ proxy_concurrent_table = <<>>
    /\ proxy_table = <<>>
    /\ prober = NoProber
    /\ firewall = NoFirewall
    /\ auth = FALSE
    /\ clients = {}
    /\ conn = <<>>
    /\ semaphore = 0
    /\ econn = NoEdge
    /\ calls = NoCalls
    /\ chosen = NoUpstream
    /\ tunnel = NoTunnel
    /\ modes = NoModes
    /\ direct = NoDirect

NextRewrite == Rewrite

SpecRewrite == InitRewrite /\ [][NextRewrite]_vars

\* the header lines of a request named name, whatever the case
LinesNamed(request, name) ==
    {i \in 1..Len(request.headers) : lower(request.headers[i][1]) = name}

\* a header line that is none of the three the rewrite deals with
Other(line) == lower(line[1]) \notin {"proxy-authorization", "proxy-connection", "connection"}

\* C17: the rewrite of a request whose header block is terminated has no
\* Proxy-Authorization line, no Proxy-Connection line and one Connection line,
\* Connection: close; the request line, the other header lines in their order
\* and the body are those of the request.
C17_EgressRewrite ==
    (rewrite.pc = "done" /\ rewrite.request.sep) =>
        LET out == rewrite.forward_request IN
        /\ LinesNamed(out, "proxy-authorization") = {}
        /\ LinesNamed(out, "proxy-connection") = {}
        /\ Cardinality(LinesNamed(out, "connection")) = 1
        /\ \A i \in LinesNamed(out, "connection") : out.headers[i] = <<"Connection", "close">>
        /\ out.request_line = rewrite.request.request_line
        /\ SelectSeq(out.headers, Other) = SelectSeq(rewrite.request.headers, Other)
        /\ out.sep
        /\ out.body = rewrite.request.body

\* a request with two Connection lines, a Proxy-Authorization line and a body
\* has been rewritten
C17_Witness ==
    /\ rewrite.pc = "done"
    /\ rewrite.request.sep
    /\ Cardinality(LinesNamed(rewrite.request, "connection")) = 2
    /\ LinesNamed(rewrite.request, "proxy-authorization") # {}
    /\ rewrite.request.body = "body"

----------------------------------------------------------------------------
(* Progress of the manager's handlers.  A step is fair when the handler takes *)
(* it whatever the peers do: what follows a wait that has a timeout (the      *)
(* header read of line 144, the connect of lines 204-206), a drain, and the   *)
(* finally once asyncio.wait has returned.  The answer of the upstream to the *)
(* CONNECT line (line 242) and the reads of the pipes (line 224) have no      *)
(* timeout: they happen only if the peer sends, closes or fails.              *)

\* the steps of handler r that do not depend on a peer
TimedStep(r) ==
    \/ ReadHeadersFail(r) \/ FirewallReject(r) \/ AuthReject(r)
    \/ ChooseFails(r) \/ Dispatch(r)
    \/ Drain403(r) \/ Drain407(r) \/ Drain502(r)
    \/ ConnectFail(r) \/ ConnectOk(r)
    \/ ForwardDrained(r)
    \/ StartRelay(r)
    \/ (conn[r].pc = "relay" /\ RelayFinally(r))

SpecLive == Init /\ [][Next]_vars /\ \A r \in 1..NumRequests : WF_vars(TimedStep(r))

\* C18: every dispatched request of the manager eventually ends, with the
\* counter of its upstream decremented.
C18_DispatchedEventuallyReleased ==
    \A r \in 1..NumRequests :
        Dispatched(r) ~> (conn[r].pc = "done" /\ Count(conn[r].log, "dec") = 1)

----------------------------------------------------------------------------
(* Selection on an empty pool.                                                *)

\* the request passed the firewall and the authentication
PolicyPassed(r) ==
    /\ PolicyChecked(r)
    /\ FirewallPass(conn[r].client_host)
    /\ ~AuthFails(conn[r].client_host, conn[r].credentials = "valid")

\* C20: with an empty pool a request that passes the policy check ends with
\* the client closed, nothing written to it, no upstream chosen or connected,
\* and the concurrency table as it was.
C20_EmptyPoolClosesSilently ==
    proxy_url = <<>> =>
        /\ choose_proxy(proxy_url, proxy_concurrent_table) = NoUpstream
        /\ proxy_concurrent_table = get_proxy_concurrent_table(proxy_url)
        /\ \A r \in Requests :
              PolicyPassed(r) =>
                  /\ conn[r].pc = "done"
                  /\ conn[r].writer = "closed"
                  /\ conn[r].sent = <<>>
                  /\ conn[r].response = NoResponse
                  /\ conn[r].proxy = "none"
                  /\ conn[r].upstream = "none"
                  /\ conn[r].log = <<>>

\* with an empty pool, a request that passed the policy check has ended
C20_Witness ==
    /\ proxy_url = <<>>
    /\ \E r \in Requests : PolicyPassed(r) /\ conn[r].pc = "done"

----------------------------------------------------------------------------
(* The two edge proxies on the same events.  A scenario says what the client  *)
(* and the destination do; each handler is run on it to its end (or to the    *)
(* point where it stays for ever) and leaves what the client has received     *)
(* (sent) and whether the proxy has closed the client connection (closed).    *)
(* The firewall lets the client through.                                      *)

Scenarios ==
    [header : {"complete", "timeout", "eof"},   \* the header read: terminator read; the
                                                \* client silent for `timeout`; the client
                                                \* closing, with nothing sent in both
     method : {"CONNECT", "GET"},
     auth_required : BOOLEAN,                   \* auth configured, host not exempted
     authorized : BOOLEAN,                      \* auth.is_authorized(headers)
     host : {"ok", "empty", "bad_port"},        \* the Host header of a non-CONNECT request
     connect : {"ok", "fail"},                  \* the connect to the destination
     upstream : {"responds", "eof", "silent", "data_then_silent", "error"},
     tunnel : {"client_eof", "idle"}]           \* idle: nothing for longer than `timeout`

Outcome(sent, closed) == [sent |-> sent, closed |-> closed]

\* the request the handler goes on with: empty after a timeout or an EOF
HeadersRead(s) == s.header = "complete"

\* proxy.py lines 412-428 and 148-163: empty headers are never authorized
Rejected407(s) == s.auth_required /\ ~(HeadersRead(s) /\ s.authorized)

\* get_method_and_target_from_request: "" for an empty request
MethodOf(s) == IF HeadersRead(s) THEN s.method ELSE ""

\* extract_host_port_from_request: an empty request has an empty host
HostOf(s) == IF HeadersRead(s) THEN s.host ELSE "empty"

\* Proxy._handle_client_request and Proxy._tunnel, proxy.py lines 360-640
Proxy_handle_client_request(s) ==
    IF s.header = "timeout" THEN Outcome(<<408>>, FALSE)                    \* 397-406
    ELSE IF Rejected407(s) THEN Outcome(<<407>>, TRUE)                      \* 412-428
    ELSE IF MethodOf(s) = "CONNECT" THEN
        IF s.connect = "fail" THEN Outcome(<<502>>, TRUE)                   \* 445-454
        ELSE Outcome(<<200>>, TRUE)                                         \* 456-471, 605-616
    ELSE IF HostOf(s) = "bad_port" THEN Outcome(<<>>, TRUE)                 \* 477, 588-593
    ELSE IF HostOf(s) = "empty" THEN Outcome(<<400>>, TRUE)                 \* 479-488
    ELSE IF s.connect = "fail" THEN Outcome(<<502>>, TRUE)                  \* 494-503
    ELSE CASE s.upstream = "responds" -> Outcome(<<UpstreamData>>, TRUE)    \* 544-554
           [] s.upstream = "eof" -> Outcome(<<>>, TRUE)                     \* 546-547
           [] s.upstream = "silent" -> Outcome(<<504>>, TRUE)               \* 555-566
           [] s.upstream = "data_then_silent" -> Outcome(<<UpstreamData>>, TRUE)
           [] s.upstream = "error" -> Outcome(<<502>>, TRUE)                \* 567-581

\* SyncProxy._handle_client_request and SyncProxy._tunnel, proxy.py lines 126-278
SyncProxy_handle_client_request(s) ==
    IF Rejected407(s) THEN Outcome(<<407>>, TRUE)                           \* 134-163
    ELSE IF MethodOf(s) = "CONNECT" THEN
        IF s.connect = "fail" THEN Outcome(<<502>>, TRUE)                   \* 177, 245-252
        ELSE IF s.tunnel = "idle" THEN Outcome(<<200>>, FALSE)              \* 258-260
        ELSE Outcome(<<200>>, TRUE)                                         \* 264-266, 252
    ELSE IF HostOf(s) = "bad_port" THEN Outcome(<<502>>, TRUE)              \* 192, 245-252
    ELSE IF HostOf(s) = "empty" THEN Outcome(<<400>>, TRUE)                 \* 194-199
    ELSE IF s.connect = "fail" THEN Outcome(<<502>>, TRUE)                  \* 202, 245-252
    ELSE CASE s.upstream = "responds" -> Outcome(<<UpstreamData>>, TRUE)    \* 232-240
           [] s.upstream = "eof" -> Outcome(<<>>, TRUE)                     \* 235-236
           [] s.upstream = "silent" -> Outcome(<<>>, TRUE)                  \* 241-242
           [] s.upstream = "data_then_silent" -> Outcome(<<UpstreamData>>, TRUE)
           [] s.upstream = "error" -> Outcome(<<502>>, TRUE)                \* 245-250

modesFrame == <<proxy_url, proxy_concurrent_table, proxy_table, prober, firewall, auth,
                clients, conn, semaphore, econn, calls, chosen, tunnel, rewrite, direct>>

NotRun == [sent |-> <<>>, closed |-> FALSE]

\* the scenario goes through the asynchronous proxy
RunAsync ==
    /\ modes.pc \in {"start", "sync"}
    /\ modes' = [modes EXCEPT !.pc = IF @ = "start" THEN "async" ELSE "both",
                              !.async = Proxy_handle_client_request(modes.scenario)]
    /\ UNCHANGED modesFrame

\* the scenario goes through the blocking proxy
RunSync ==
    /\ modes.pc \in {"start", "async"}
    /\ modes' = [modes EXCEPT !.pc = IF @ = "start" THEN "sync" ELSE "both",
                              !.sync = SyncProxy_handle_client_request(modes.scenario)]
    /\ UNCHANGED modesFrame

InitModes ==
    /\ \E s \in Scenarios :
         modes = [pc |-> "start", scenario |-> s, async |-> NotRun, sync |-> NotRun]
    /\ proxy_url = <<>>
    /\ proxy_concurrent_table = <<>>
    /\ proxy_table = <<>>
    /\ prober = NoProber
    /\ firewall = NoFirewall
    /\ auth = FALSE
    /\ clients = {}
    /\ conn = <<>>
    /\ semaphore = 0
    /\ econn = NoEdge
    /\ calls = NoCalls
    /\ chosen = NoUpstream
    /\ tunnel = NoTunnel
    /\ rewrite = NoRewrite
    /\ direct = NoDirect

NextModes ==
    \/ RunAsync
    \/ RunSync

SpecModes == InitModes /\ [][NextModes]_vars

\* C19: on the same events the two edge proxies send the client the same
\* status (or none) and both close, or both keep, the connection.
C19_ModesAgree ==
    modes.pc = "both" => modes.async = modes.sync

----------------------------------------------------------------------------
\* Upstream connect failure in the manager (manager.py 198-219)

\* the request was dispatched and its connect to the upstream did not succeed
ConnectFailed(r) ==
    /\ Dispatched(r)
    /\ conn[r].upstream = "none"
    /\ conn[r].pc \in {"drain_502", "done"}

\* C21: when the manager's connect to the chosen upstream fails or times out, the
\* client is sent a 502 that carries Connection: close and nothing else, the
\* upstream's counter no longer counts this request (it is back at the number of
\* the other requests holding a slot), no relay is started, and the handler ends
\* with the client socket closed.
C21_ConnectFailure502 ==
    \A r \in Requests :
        ConnectFailed(r) =>
            /\ conn[r].sent = <<502>>
            /\ conn[r].response.status_code = 502
            /\ HeaderIs(conn[r].response, "Connection", "close")
            /\ r \notin InFlight(conn[r].proxy)
            /\ proxy_concurrent_table[conn[r].proxy]
                   = Cardinality(InFlight(conn[r].proxy) \ {r})
            /\ Count(conn[r].log, "relay") = 0
            /\ conn[r].pipe1 = "none" /\ conn[r].pipe2 = "none"
            /\ (conn[r].pc = "done" => conn[r].writer = "closed")

\* a connect failed while another request holds a slot of the same upstream, and
\* the failed request's handler has finished
C21_Witness ==
    \E r1, r2 \in Requests :
        /\ r1 # r2
        /\ ConnectFailed(r1) /\ conn[r1].pc = "done"
        /\ r2 \in InFlight(conn[r1].proxy)
        /\ proxy_concurrent_table[conn[r1].proxy] = 1

----------------------------------------------------------------------------
\* Errors that leave the edge proxy's handler (proxy.py 410-593, 618-630)

\* C22: no error raised inside a handler of the edge proxy (a Host header whose
\* port is missing or not a number, a failed write, the cancellation of the
\* pending relay task) leaves the handler: every handler that has ended has
\* ended by a return, with the connection in Terminal.
C22_NoErrorLeavesHandler ==
    \A c \in EClients :
        /\ ~econn[c].raised
        /\ econn[c].pc = "done" => econn[c].writer = "closed" /\ ~econn[c].holds

----------------------------------------------------------------------------
(***************************************************************************)
(* The Host header of a plain request: extract_host_port_from_request      *)
(* (helpers.py 5-22) and the lines of the edge proxy's handler that use    *)
(* its result (proxy.py 477-503).  Octet strings are sequences of octets,  *)
(* offsets count from 0 as in Python.                                      *)
(***************************************************************************)

Min(a, b) == IF a <= b THEN a ELSE b

\* Python's reading of a slice bound i on a string of n octets
Bound(i, n) == IF i < 0 THEN Max(i + n, 0) ELSE Min(i, n)

\* s[a:b]
slice(s, a, b) ==
    LET lo == Bound(a, Len(s))
        hi == Bound(b, Len(s))
    IN  IF lo >= hi THEN <<>> ELSE SubSeq(s, lo + 1, hi)

\* s[a:]
sliceFrom(s, a) == slice(s, a, Len(s))

\* s.find(sub, start): the first offset >= start at which sub occurs, or -1
find(s, sub, start) ==
    LET at == {i \in Bound(start, Len(s))..(Len(s) - Len(sub)) :
                   SubSeq(s, i + 1, i + Len(sub)) = sub}
    IN  IF at = {} THEN 0 - 1 ELSE CHOOSE i \in at : \A j \in at : i <= j

Digits == <<"0", "1", "2", "3", "4", "5", "6", "7", "8", "9">>

IsDigit(c) == \E d \in 1..10 : Digits[d] = c

DigitValue(c) == (CHOOSE d \in 1..10 : Digits[d] = c) - 1

\* int(text) accepts a text of decimal digits (the port texts drawn here are made
\* of digits and letters, or are empty)
IsInt(text) == text # <<>> /\ \A i \in 1..Len(text) : IsDigit(text[i])

RECURSIVE int(_)
int(text) ==
    IF text = <<>> THEN 0
    ELSE 10 * int(SubSeq(text, 1, Len(text) - 1)) + DigitValue(text[Len(text)])

CRLF == <<"\r", "\n">>

HostColon == <<"H", "o", "s", "t", ":", " ">>

\* helpers.py lines 5-22; raised stands for the ValueError of int() at line 19
extract_host_port_from_request(request) ==
    LET host_string_start == find(request, HostColon, 0) + Len(HostColon)
        host_string_end == find(request, CRLF, host_string_start)
        host_string == slice(request, host_string_start, host_string_end)
        slash == find(host_string, <<"/">>, 0)
        webserver_pos == IF slash = 0 - 1 THEN Len(host_string) ELSE slash
        port_pos == find(host_string, <<":">>, 0)
        port_text == slice(sliceFrom(host_string, port_pos + 1), 0,
                           webserver_pos - port_pos - 1)
    IN  IF port_pos = 0 - 1 \/ webserver_pos < port_pos
        THEN [raised |-> FALSE, host |-> slice(host_string, 0, webserver_pos), port |-> 80]
        ELSE IF IsInt(port_text)
        THEN [raised |-> FALSE, host |-> slice(host_string, 0, port_pos),
              port |-> int(port_text)]
        ELSE [raised |-> TRUE, host |-> <<>>, port |-> 0]

\* str.strip() leaves nothing
IsBlank(host) == \A i \in 1..Len(host) : host[i] \in {" ", "\t", "\r", "\n"}

\* the most header lines of a request drawn
MaxLines == 2

\* the request lines drawn: origin form and absolute form
RequestLines ==
    { <<"G", "E", "T", " ", "/", " ", "H", "T", "T", "P", "/", "1", ".", "1">>,
      <<"G", "E", "T", " ", "/", "x", " ", "H", "T", "T", "P", "/", "1", ".", "1">>,
      <<"G", "E", "T", " ", "h", "t", "t", "p", ":", "/", "/", "a", "/", " ", "H", "T", "T", "P", "/", "1", ".", "1">> }

\* the header lines drawn
HostHeaderLines ==
    { <<"H", "o", "s", "t", ":", " ", "a">>,
      <<"H", "o", "s", "t", ":", " ", "a", ":", "8">>,
      <<"H", "o", "s", "t", ":", " ", "a", ":", "x">>,
      <<"H", "o", "s", "t", ":", " ", "a", ":">>,
      <<"H", "o", "s", "t", ":", " ">>,
      <<"h", "o", "s", "t", ":", " ", "a">>,
      <<"A", "c", "c", "e", "p", "t", ":", " ", "b">>,
      <<"H", "o", "s", "t", ":", " ", "a", "/", "b", ":", "8">> }

RECURSIVE JoinLines(_)
JoinLines(lines) ==
    IF lines = <<>> THEN <<>> ELSE Head(lines) \o CRLF \o JoinLines(Tail(lines))

\* the octets of a request: request line, header lines, empty line
RequestOctets(request_line, lines) == request_line \o CRLF \o JoinLines(lines) \o CRLF

directFrame == <<proxy_url, proxy_concurrent_table, proxy_table, prober, firewall, auth,
                 clients, conn, semaphore, econn, calls, chosen, tunnel, modes, rewrite>>

\* proxy.py line 477: the call; an error of int() leaves the handler through the
\* finally of 588-593
ExtractHostPort ==
    /\ direct.pc = "request"
    /\ LET r == extract_host_port_from_request(direct.request)
       IN  direct' = [direct EXCEPT !.pc = IF r.raised THEN "done" ELSE "host",
                                    !.raised = r.raised, !.host = r.host, !.port = r.port]
    /\ UNCHANGED directFrame

\* proxy.py lines 479-488: `not host or not host.strip()`: 400
BadRequest ==
    /\ direct.pc = "host"
    /\ IsBlank(direct.host)
    /\ direct' = [direct EXCEPT !.pc = "done", !.sent = Append(@, 400)]
    /\ UNCHANGED directFrame

\* proxy.py lines 490-493: the connect to (host, port) is started
OpenConnection ==
    /\ direct.pc = "host"
    /\ ~IsBlank(direct.host)
    /\ direct' = [direct EXCEPT !.pc = "connect", !.connect = <<direct.host>>]
    /\ UNCHANGED directFrame

InitHost ==
    /\ \E request_line \in RequestLines :
       \E n \in 0..MaxLines :
       \E lines \in [1..n -> HostHeaderLines] :
         direct = [pc |-> "request", lines |-> lines,
                   request |-> RequestOctets(request_line, lines),
                   raised |-> FALSE, host |-> <<>>, port |-> 0,
                   sent |-> <<>>, connect |-> <<>>]
    /\ proxy_url = <<>>
    /\ proxy_concurrent_table = <<>>
    /\ proxy_table = <<>>
    /\ prober = NoProber
    /\ firewall = NoFirewall
    /\ auth = FALSE
    /\ clients = {}
    /\ conn = <<>>
    /\ semaphore = 0
    /\ econn = NoEdge
    /\ calls = NoCalls
    /\ chosen = NoUpstream
    /\ tunnel = NoTunnel
    /\ modes = NoModes
    /\ rewrite = NoRewrite

NextHost ==
    \/ ExtractHostPort
    \/ BadRequest
    \/ OpenConnection

SpecHost == InitHost /\ [][NextHost]_vars

\* the name of a header line: what precedes its colon
NameOf(line) == slice(line, 0, find(line, <<":">>, 0))

\* the value of a header line, without the blanks around it
ValueOf(line) ==
    LET v == sliceFrom(line, find(line, <<":">>, 0) + 1)
    IN  SelectSeq(v, LAMBDA c : c # " ")

\* header names are case-insensitive
IsHost(name) == name \in {<<"H", "o", "s", "t">>, <<"h", "o", "s", "t">>}

\* the Host lines of the request
HostLines == {i \in 1..Len(direct.lines) : IsHost(NameOf(direct.lines[i]))}

\* the request has no Host header, or only empty ones
HostMissingOrEmpty == \A i \in HostLines : ValueOf(direct.lines[i]) = <<>>

\* C23: a request with another method than CONNECT whose Host header is missing
\* or empty is answered 400 and the connection is ended; no connect to any
\* destination is attempted for it.
C23_NoHost400 ==
    (direct.pc \in {"done", "connect"} /\ HostMissingOrEmpty) =>
        /\ direct.pc = "done"
        /\ direct.sent = <<400>>
        /\ direct.connect = <<>>

----------------------------------------------------------------------------
\* A slow client while the request body is streamed (proxy.py 520-566)

\* C24: when the read of the remaining request body from the client times out,
\* the handler ends with the connection closed and has written to the client
\* nothing, or a 408; it writes no 502 and no 504 for this timeout of the client.
C24_ClientTimeoutNoGatewayStatus ==
    [][\A c \in EClients :
          (econn[c].pc = "read_body" /\ econn'[c].failure = "timeout") =>
              /\ econn'[c].pc = "done"
              /\ econn'[c].writer = "closed"
              /\ econn'[c].sent \in {<<>>, <<408>>}]_vars

----------------------------------------------------------------------------
(***************************************************************************)
(* The construction of the manager (manager.py 28-100): the co-hosted edge *)
(* proxy is appended to the given descriptors unless that would make the   *)
(* manager its own upstream, then the descriptors are deduplicated by url. *)
(* The constructed manager then runs its health prober.                    *)
(***************************************************************************)

\* the most descriptors given to the constructor
MaxGiven == 2

\* the hosts of line 65
Loopback == {"127.0.0.1", "localhost", "0.0.0.0"}

ServerHosts == Loopback \cup {"10.0.0.5"}

Ports == {8888, 8889}

\* the manager's listen port
ListenPorts == {8889}

\* no proxy_server argument
NoServer == [host |-> "", port |-> 0]

\* Proxy.get_info() of the co-hosted proxy
Servers == {[host |-> h, port |-> p] : h \in ServerHosts, p \in Ports}

\* ProxyModel(f"{proxy_host}:{proxy_port}") after __post_init__ (a host:port text
\* has no scheme: http:// is put before it; credentials go to auth, not to url)
ServerModel(server) ==
    ProxyModel("http://" \o server.host \o ":" \o ToString(server.port), 1000, 2)

\* the descriptors drawn: some with the url of a co-hosted proxy, with different
\* priorities under the same url
GivenModels ==
    {ProxyModel(u, 1000, p) : u \in {"http://10.0.0.5:8888", "http://127.0.0.1:8889",
                                     "http://b:3128"},
                              p \in {1, 2}}

\* lines 55-76 without the test of line 65
with_proxy_server_NoLoopCheck(given, port, server) ==
    IF server = NoServer THEN [proxy_url |-> given, warnings |-> 0]
    ELSE [proxy_url |-> Append(given, ServerModel(server)), warnings |-> 0]

\* lines 55-76: the list after the co-hosted proxy has been dealt with, and the
\* warnings logged
with_proxy_server(given, port, server) ==
    IF server = NoServer THEN [proxy_url |-> given, warnings |-> 0]
    ELSE IF server.host \in Loopback /\ server.port = port
    THEN [proxy_url |-> given, warnings |-> 1]
    ELSE [proxy_url |-> Append(given, ServerModel(server)), warnings |-> 0]

\* the loop of lines 81-84 without seen_urls
RECURSIVE unique_proxies_KeepAll(_, _, _)
unique_proxies_KeepAll(list, seen_urls, unique) ==
    IF list = <<>> THEN unique
    ELSE unique_proxies_KeepAll(Tail(list), seen_urls, Append(unique, Head(list)))

\* the loop of lines 78-84
RECURSIVE unique_proxies(_, _, _)
unique_proxies(list, seen_urls, unique) ==
    IF list = <<>> THEN unique
    ELSE IF Head(list).url \notin seen_urls
    THEN unique_proxies(Tail(list), seen_urls \cup {Head(list).url},
                        Append(unique, Head(list)))
    ELSE unique_proxies(Tail(list), seen_urls, unique)

constructFrame == <<firewall, auth, clients, conn, semaphore, econn, calls, chosen,
                    tunnel, modes, rewrite>>

\* ProxyManager.__init__, lines 43-100; _run then starts the prober (line 107)
ProxyManager_init ==
    /\ direct.pc = "args"
    /\ LET appended == with_proxy_server(direct.proxy_url, direct.port, direct.proxy_server)
           unique == unique_proxies(appended.proxy_url, {}, <<>>)
       IN  /\ proxy_url' = unique
           /\ proxy_concurrent_table' = get_proxy_concurrent_table(unique)
           /\ direct' = [direct EXCEPT !.pc = "constructed",
                                       !.warnings = appended.warnings]
    /\ proxy_table' = <<>>
    /\ prober' = [pc |-> "sleep"]
    /\ UNCHANGED constructFrame

InitConstruct ==
    /\ \E n \in 0..MaxGiven :
       \E given \in [1..n -> GivenModels] :
       \E port \in ListenPorts :
       \E server \in Servers \cup {NoServer} :
         direct = [pc |-> "args", proxy_url |-> given, port |-> port,
                   proxy_server |-> server, warnings |-> 0]
    /\ proxy_url = <<>>
    /\ proxy_concurrent_table = <<>>
    /\ proxy_table = <<>>
    /\ prober = NoProber
    /\ firewall = NoFirewall
    /\ auth = FALSE
    /\ clients = {}
    /\ conn = <<>>
    /\ semaphore = 0
    /\ econn = NoEdge
    /\ calls = NoCalls
    /\ chosen = NoUpstream
    /\ tunnel = NoTunnel
    /\ modes = NoModes
    /\ rewrite = NoRewrite

NextConstruct ==
    \/ ProxyManager_init
    \/ StartPass
    \/ ProcessUpdate
    \/ OrderProxy

SpecConstruct == InitConstruct /\ [][NextConstruct]_vars

\* the manager has been constructed and no health pass has written a result yet
JustConstructed == direct.pc = "constructed" /\ proxy_table = <<>>

\* a co-hosted proxy was given and would make the manager its own upstream
IsLoop ==
    /\ direct.proxy_server # NoServer
    /\ direct.proxy_server.host \in Loopback
    /\ direct.proxy_server.port = direct.port

\* the positions of list that hold the first descriptor of their url
FirstSeen(list) == {i \in 1..Len(list) : \A j \in 1..(i - 1) : list[j].url # list[i].url}

\* pool is list without the descriptors whose url an earlier descriptor has
IsFirstSeenOf(pool, list) ==
    /\ Len(pool) = Cardinality(FirstSeen(list))
    /\ \A k \in 1..Len(pool) :
          \E i \in FirstSeen(list) :
              /\ pool[k] = list[i]
              /\ Cardinality({j \in FirstSeen(list) : j < i}) = k - 1

\* the given descriptors have the url of the co-hosted proxy
ServerUrlGiven ==
    \E i \in 1..Len(direct.proxy_url) :
        direct.proxy_url[i].url = ServerModel(direct.proxy_server).url

Candidates ==
    IF direct.proxy_server = NoServer \/ IsLoop THEN direct.proxy_url
    ELSE Append(direct.proxy_url, ServerModel(direct.proxy_server))

\* C26: in every state of a constructed manager, before and after any number of
\* health passes and reorderings, no two pool entries share a url, and the pool
\* is a permutation of the descriptors kept at construction: the first-seen
\* descriptor of each url among the given ones and the appended co-hosted proxy.
C26_PoolUniquePermutation ==
    direct.pc = "constructed" =>
        /\ \A i, j \in 1..Len(proxy_url) : proxy_url[i].url = proxy_url[j].url => i = j
        /\ Len(proxy_url) = Cardinality(FirstSeen(Candidates))
        /\ \A i \in FirstSeen(Candidates) :
              \E k \in 1..Len(proxy_url) : proxy_url[k] = Candidates[i]

\* a duplicate was dropped at construction and a health pass has reordered the pool
C26_Witness ==
    /\ direct.pc = "constructed" /\ prober.pc = "sleep" /\ proxy_table # <<>>
    /\ Len(Candidates) > Len(proxy_url)
    /\ Len(proxy_url) = 2
    /\ ~IsFirstSeenOf(proxy_url, Candidates)

----------------------------------------------------------------------------
\* The construction of a firewall (firewall.py 7-38)

\* the hosts the lists of a firewall are drawn from
FirewallHosts == {"h1", "h2"}

\* firewall.py lines 25-38: TRUE iff the constructor raises ValueError
ProxyFirewall_raises(allowlist, blocklist, no_auth_required) ==
    \/ allowlist = {} /\ blocklist = {} /\ no_auth_required = {}
    \/ \E host \in allowlist : host \in blocklist
    \/ \E host \in blocklist : host \in allowlist \/ host \in no_auth_required
    \/ \E host \in no_auth_required : host \in blocklist

firewallFrame == <<proxy_url, proxy_concurrent_table, proxy_table, prober, auth,
                   clients, conn, semaphore, econn, calls, chosen, tunnel, modes, rewrite>>

\* ProxyFirewall.__init__ returns the firewall
ProxyFirewall_init ==
    /\ direct.pc = "args"
    /\ ~ProxyFirewall_raises(direct.allowlist, direct.blocklist, direct.no_auth_required)
    /\ firewall' = ProxyFirewall(direct.allowlist, direct.blocklist, direct.no_auth_required)
    /\ direct' = [direct EXCEPT !.pc = "constructed"]
    /\ UNCHANGED firewallFrame

\* ProxyFirewall.__init__ raises ValueError: no firewall exists
ProxyFirewall_init_ValueError ==
    /\ direct.pc = "args"
    /\ ProxyFirewall_raises(direct.allowlist, direct.blocklist, direct.no_auth_required)
    /\ direct' = [direct EXCEPT !.pc = "raised"]
    /\ UNCHANGED <<firewall, firewallFrame>>

\* a host presents itself to the constructed firewall: verify, is_no_auth_required
VerifyHost ==
    /\ direct.pc = "constructed"
    /\ \E host \in FirewallHosts :
         direct' = [direct EXCEPT !.pc = "verified", !.host = host,
                                  !.passes = verify(firewall, host),
                                  !.no_auth = is_no_auth_required(firewall, host)]
    /\ UNCHANGED <<firewall, firewallFrame>>

InitFirewall ==
    /\ \E a \in SUBSET FirewallHosts :
       \E b \in SUBSET FirewallHosts :
       \E n \in SUBSET FirewallHosts :
         direct = [pc |-> "args", allowlist |-> a, blocklist |-> b, no_auth_required |-> n,
                   host |-> "", passes |-> FALSE, no_auth |-> FALSE]
    /\ firewall = NoFirewall
    /\ proxy_url = <<>>
    /\ proxy_concurrent_table = <<>>
    /\ proxy_table = <<>>
    /\ prober = NoProber
    /\ auth = FALSE
    /\ clients = {}
    /\ conn = <<>>
    /\ semaphore = 0
    /\ econn = NoEdge
    /\ calls = NoCalls
    /\ chosen = NoUpstream
    /\ tunnel = NoTunnel
    /\ modes = NoModes
    /\ rewrite = NoRewrite

NextFirewall ==
    \/ ProxyFirewall_init
    \/ ProxyFirewall_init_ValueError
    \/ VerifyHost

SpecFirewall == InitFirewall /\ [][NextFirewall]_vars

\* C27: every firewall that was constructed has pairwise disjoint allow, block and
\* no_auth_required sets, and the construction fails for every input in which a
\* host is in two of the three lists (allow and block, block and
\* no_auth_required, or allow and no_auth_required).
C27_FirewallDisjoint ==
    /\ firewall.enabled =>
          /\ firewall.allowlist \cap firewall.blocklist = {}
          /\ firewall.blocklist \cap firewall.no_auth_required = {}
          /\ firewall.allowlist \cap firewall.no_auth_required = {}
    /\ (/\ direct.pc # "args"
        /\ \/ direct.allowlist \cap direct.blocklist # {}
           \/ direct.blocklist \cap direct.no_auth_required # {}
           \/ direct.allowlist \cap direct.no_auth_required # {})
          => direct.pc = "raised"

----------------------------------------------------------------------------
\* The response builder called with a body and the caller's headers
\* (response.py 8-100)

\* the most characters of a body drawn
MaxBody == 2

\* the most entries of a caller's header mapping drawn
MaxCallerHeaders == 2

\* the code points drawn: a (one octet in UTF-8) and e with acute accent (two)
Chars == {97, 233}

\* the status codes drawn
StatusCodes == {400, 502}

\* the entries a caller's mapping is made of
CallerHeaders ==
    {<<"Content-Length", "5">>, <<"content-length", "5">>, <<"Connection", "close">>,
     <<"Content-Type", "text/html">>}

\* the caller's mappings: a dict holds a key once
CallerMappings ==
    {h \in UNION {[1..n -> CallerHeaders] : n \in 0..MaxCallerHeaders} :
        \A i, j \in 1..Len(h) : h[i][1] = h[j][1] => i = j}

\* the bodies drawn: None and the strings of at most MaxBody characters
Bodies == {<<>>} \cup {<<text>> : text \in UNION {[1..n -> Chars] : n \in 0..MaxBody}}

\* ProxyResponse(status_code, body, headers)
NewProxyResponse ==
    /\ direct.pc = "args"
    /\ direct' = [direct EXCEPT !.pc = "done",
                     !.response = ProxyResponse(direct.status_code, direct.body,
                                                direct.headers)]
    /\ UNCHANGED directFrame

InitResponse ==
    /\ \E status_code \in StatusCodes :
       \E body \in Bodies :
       \E headers \in CallerMappings :
         direct = [pc |-> "args", status_code |-> status_code, body |-> body,
                   headers |-> headers, response |-> NoResponse]
    /\ proxy_url = <<>>
    /\ proxy_concurrent_table = <<>>
    /\ proxy_table = <<>>
    /\ prober = NoProber
    /\ firewall = NoFirewall
    /\ auth = FALSE
    /\ clients = {}
    /\ conn = <<>>
    /\ semaphore = 0
    /\ econn = NoEdge
    /\ calls = NoCalls
    /\ chosen = NoUpstream
    /\ tunnel = NoTunnel
    /\ modes = NoModes
    /\ rewrite = NoRewrite

NextResponse == NewProxyResponse

SpecResponse == InitResponse /\ [][NextResponse]_vars

\* the number of octets a text takes on the wire
RECURSIVE OctetCount(_)
OctetCount(text) ==
    IF text = <<>> THEN 0
    ELSE (IF Head(text) < 128 THEN 1 ELSE 2) + OctetCount(Tail(text))

\* the header lines of a response under the name Content-Length
ContentLengthLines(response) ==
    {i \in 1..Len(response.headers) : response.headers[i][1] = "Content-Length"}

----------------------------------------------------------------------------
\* The client ends the connection inside the header block (proxy.py 390-430)

\* C29: when the client closes its side before the terminator of the header
\* block has been received, the handler of the edge proxy goes to Terminal(close)
\* directly: nothing is written to the client, no policy check or dispatch is run
\* on the partial buffer, and no connection to a destination is attempted.
C29_EofInHeadersClosesSilently ==
    \A c \in EClients :
        econn[c].headers = "partial" =>
            /\ econn[c].pc = "done"
            /\ econn[c].sent = <<>>
            /\ econn[c].method = "?"
            /\ econn[c].dest = "none"

----------------------------------------------------------------------------
\* The 200 line of a CONNECT tunnel (proxy.py 432-471)

\* the relay of the tunnel has been entered
RelayEntered(c) == econn[c].task_up # "none" \/ econn[c].task_down # "none"

\* C30: for a CONNECT request the edge proxy writes the 200 Connection
\* Established line only after the TCP connect to the target has succeeded, once,
\* and before any relayed octet: the relay is entered only after it. If the
\* connect fails or times out the client is sent 502, never the 200 line, and the
\* relay is not entered.
C30_EstablishedAfterConnect ==
    \A c \in EClients :
        econn[c].method = "CONNECT" =>
            /\ Count(econn[c].sent, 200) <= 1
            /\ Count(econn[c].sent, 200) = 1 => econn[c].sent[1] = 200 /\ econn[c].dest # "none"
            /\ (RelayEntered(c) \/ Count(econn[c].sent, UpstreamData) > 0) =>
                   Len(econn[c].sent) >= 1 /\ econn[c].sent[1] = 200
            /\ econn[c].pc = "connect_tunnel" => econn[c].sent = <<>> /\ ~RelayEntered(c)
            /\ Count(econn[c].sent, 502) > 0 =>
                   /\ econn[c].sent = <<502>>
                   /\ econn[c].dest = "none"
                   /\ ~RelayEntered(c)

\* one tunnel has relayed octets of its destination after the 200 line while the
\* connect of another CONNECT request has failed
C30_Witness ==
    \E c1, c2 \in EClients :
        /\ econn[c1].method = "CONNECT" /\ econn[c1].sent = <<200, UpstreamData>>
        /\ econn[c2].method = "CONNECT" /\ econn[c2].sent = <<502>>
        /\ econn[c2].pc = "done"

----------------------------------------------------------------------------
\* One ordering step on any pool and any health table (manager.py 376-405)

\* the most upstreams of a pool that is ordered
MaxSorted == 3

\* the latencies of the health table drawn
OrderLatencies == {5, 7}

\* the pools drawn: upstream i has the i-th url, any priority and max_connections
OrderPools ==
    UNION {[1..n -> {ProxyModel(u, m, p) : u \in {"A", "B", "C", "D"}, m \in {1, 2},
                                            p \in {1, 2}}] :
           n \in 0..MaxSorted}

InitOrder ==
    /\ \E pool \in OrderPools :
       \E known \in SUBSET {pool[i].url : i \in 1..Len(pool)} :
       \E table \in [known -> OrderLatencies \cup {None}] :
         /\ \A i \in 1..Len(pool) : pool[i].url = PoolUrls[i]
         /\ proxy_url = pool
         /\ proxy_table = table
         /\ direct = [pc |-> "pool", proxy_url |-> pool]
    /\ proxy_concurrent_table = get_proxy_concurrent_table(proxy_url)
    /\ prober = [pc |-> "order"]
    /\ firewall = NoFirewall
    /\ auth = FALSE
    /\ clients = {}
    /\ conn = <<>>
    /\ semaphore = 0
    /\ econn = NoEdge
    /\ calls = NoCalls
    /\ chosen = NoUpstream
    /\ tunnel = NoTunnel
    /\ modes = NoModes
    /\ rewrite = NoRewrite

NextOrder == OrderProxy

SpecOrder == InitOrder /\ [][NextOrder]_vars

\* the latency the health table holds for an upstream, None when unknown
LatencyOf(proxy) ==
    IF proxy.url \in DOMAIN proxy_table THEN proxy_table[proxy.url] ELSE None

\* C31: after every ordering step the pool is sorted by the key (latency unknown,
\* latency, priority, -max_connections): an upstream with unknown latency comes
\* after all with known latency, known latencies ascend, equal latencies are in
\* ascending priority, and equal latency and priority in descending
\* max_connections.
C31_PoolSortedAfterOrdering ==
    prober.pc = "sleep" =>
        \A i, j \in 1..Len(proxy_url) :
            i < j =>
                LET a == proxy_url[i]
                    b == proxy_url[j]
                IN  /\ LatencyOf(a) = None => LatencyOf(b) = None
                    /\ (LatencyOf(a) # None /\ LatencyOf(b) # None) =>
                           LatencyOf(a) <= LatencyOf(b)
                    /\ LatencyOf(a) = LatencyOf(b) => a.priority <= b.priority
                    /\ (LatencyOf(a) = LatencyOf(b) /\ a.priority = b.priority) =>
                           a.max_connections >= b.max_connections

\* an ordering step has moved every upstream of a pool of three: two of equal
\* latency and priority are now in descending max_connections, before one of
\* unknown latency
C31_Witness ==
    /\ prober.pc = "sleep"
    /\ Len(proxy_url) = 3
    /\ \A i \in 1..3 : proxy_url[i] # direct.proxy_url[i]
    /\ LatencyOf(proxy_url[1]) = 7 /\ LatencyOf(proxy_url[2]) = 7
    /\ proxy_url[1].priority = proxy_url[2].priority
    /\ proxy_url[1].max_connections = 2 /\ proxy_url[2].max_connections = 1
    /\ LatencyOf(proxy_url[3]) = None

----------------------------------------------------------------------------
(***************************************************************************)
(* A health pass task by task: _update_proxy, _get_proxy, _health_check    *)
(* and _update_proxy_table_entry (manager.py 281-374), for pools that may  *)
(* be longer than bath_size.  A task created in the loop of _get_proxy     *)
(* runs only once the prober waits in a gather.  Latencies are in seconds. *)
(***************************************************************************)

\* the most upstreams of a probed pool
MaxProbed == 3

\* the largest bath_size drawn
MaxBatch == 2

\* minimum_latency of _health_check
minimum_latency == 10

\* what a probe measures: a latency below or at minimum_latency, or None when the
\* connect fails, times out or raises
ProbeLatencies == {5, minimum_latency, None}

\* the pools probed: the first n upstreams of PoolUrls
ProbedPools ==
    {[i \in 1..n |-> ProxyModel(PoolUrls[i], 2, IF i % 2 = 0 THEN 1 ELSE 2)] : n \in 0..MaxProbed}

\* the prober at the start of a pass (lines 341-342)
NewPass(bath) ==
    [pc |-> "loop", bath_size |-> bath, i |-> 1, health_check_tasks |-> <<>>,
     health_proxies |-> 0, written |-> {}, warnings |-> 0, orders |-> 0]

passFrame == <<proxy_concurrent_table, firewall, auth, clients, conn, semaphore, econn,
               calls, chosen, tunnel, modes, rewrite, direct>>

\* the task of _health_check(proxy), not yet finished
NewTask(proxy) == [url |-> proxy.url, state |-> "running", latency |-> None, health |-> FALSE]

\* lines 344-347 without the test of line 347: no gather inside the loop
CreateTask_NoBatch ==
    /\ prober.pc = "loop"
    /\ prober.i <= Len(proxy_url)
    /\ prober' = [prober EXCEPT !.i = @ + 1,
                     !.health_check_tasks = Append(@, NewTask(proxy_url[prober.i]))]
    /\ UNCHANGED <<proxy_url, proxy_table, passFrame>>

\* lines 344-348: the next upstream's task is created and appended; when the list
\* (which is never emptied) has reached bath_size all of its tasks are gathered
CreateTask ==
    /\ prober.pc = "loop"
    /\ prober.i <= Len(proxy_url)
    /\ LET tasks == Append(prober.health_check_tasks, NewTask(proxy_url[prober.i]))
       IN  prober' = [prober EXCEPT !.i = @ + 1, !.health_check_tasks = tasks,
                         !.pc = IF Len(tasks) >= prober.bath_size THEN "gather" ELSE "loop"]
    /\ UNCHANGED <<proxy_url, proxy_table, passFrame>>

\* lines 351-352: after the loop the list, if not empty, is gathered once more
LoopEnd ==
    /\ prober.pc = "loop"
    /\ prober.i > Len(proxy_url)
    /\ prober' = [prober EXCEPT !.i = @ + 1,
                     !.pc = IF prober.health_check_tasks # <<>> THEN "gather" ELSE "end"]
    /\ UNCHANGED <<proxy_url, proxy_table, passFrame>>

\* _health_check, lines 281-307: a running probe ends: its connect has succeeded
\* after latency seconds, or has failed (None); health is False for None and for a
\* latency of minimum_latency or more
HealthCheck ==
    /\ prober.pc = "gather"
    /\ \E k \in 1..Len(prober.health_check_tasks), latency \in ProbeLatencies :
         /\ prober.health_check_tasks[k].state = "running"
         /\ prober' = [prober EXCEPT !.health_check_tasks[k] =
                 [@ EXCEPT !.state = "done", !.latency = latency,
                           !.health = (latency # None /\ latency < minimum_latency)]]
    /\ UNCHANGED <<proxy_url, proxy_table, passFrame>>

\* _update_proxy_table_entry, line 367: the entry stored for a probe's result
update_proxy_table_entry(health_result) == [latency |-> health_result.latency]

\* the entries written by the update tasks of _process_update_task, in the order
\* of the results; proxy_table keeps the latency of each entry
RECURSIVE WriteResults(_, _)
WriteResults(table, results) ==
    IF results = <<>> THEN table
    ELSE LET result == Head(results)
             entry == update_proxy_table_entry(result)
         IN  WriteResults([u \in DOMAIN table \cup {result.url} |->
                               IF u = result.url THEN entry.latency ELSE table[u]],
                          Tail(results))

\* lines 348-349 and 352-353 with 323-339 and 360-367: the gather returns the
\* result of every task of the list; each result is written to proxy_table and
\* counted in health_proxies
ProcessUpdateTask ==
    /\ prober.pc = "gather"
    /\ \A k \in 1..Len(prober.health_check_tasks) :
          prober.health_check_tasks[k].state = "done"
    /\ proxy_table' = WriteResults(proxy_table, prober.health_check_tasks)
    /\ prober' = [prober EXCEPT
           !.health_proxies = @ + Len(prober.health_check_tasks),
           !.written = @ \cup {prober.health_check_tasks[k].url :
                                   k \in 1..Len(prober.health_check_tasks)},
           !.pc = IF prober.i > Len(proxy_url) + 1 THEN "end" ELSE "loop"]
    /\ UNCHANGED <<proxy_url, passFrame>>

\* lines 355-358: the warning when health_proxies is 0
PassEnd ==
    /\ prober.pc = "end"
    /\ prober' = [prober EXCEPT !.pc = "order",
                     !.warnings = IF prober.health_proxies = 0 THEN 1 ELSE 0]
    /\ UNCHANGED <<proxy_url, proxy_table, passFrame>>

\* line 372: _order_proxy
PassOrder ==
    /\ prober.pc = "order"
    /\ proxy_url' = Sorted(proxy_url)
    /\ prober' = [prober EXCEPT !.pc = "sleep", !.orders = @ + 1]
    /\ UNCHANGED <<proxy_table, passFrame>>

\* lines 370-374 if the prober ended after its first pass
NextPass_Once ==
    /\ prober.pc = "sleep"
    /\ prober' = [prober EXCEPT !.pc = "stopped"]
    /\ UNCHANGED <<proxy_url, proxy_table, passFrame>>

\* lines 370-374: update_timeout has passed, the next pass starts
NextPass ==
    /\ prober.pc = "sleep"
    /\ prober' = NewPass(prober.bath_size)
    /\ UNCHANGED <<proxy_url, proxy_table, passFrame>>

InitPass ==
    /\ proxy_url \in ProbedPools
    /\ \E bath \in 1..MaxBatch : prober = NewPass(bath)
    /\ proxy_concurrent_table = get_proxy_concurrent_table(proxy_url)
    /\ proxy_table = <<>>
    /\ firewall = NoFirewall
    /\ auth = FALSE
    /\ clients = {}
    /\ conn = <<>>
    /\ semaphore = 0
    /\ econn = NoEdge
    /\ calls = NoCalls
    /\ chosen = NoUpstream
    /\ tunnel = NoTunnel
    /\ modes = NoModes
    /\ rewrite = NoRewrite
    /\ direct = NoDirect

NextPassStep ==
    \/ CreateTask
    \/ LoopEnd
    \/ HealthCheck
    \/ ProcessUpdateTask
    \/ PassEnd
    \/ PassOrder
    \/ NextPass

SpecPass == InitPass /\ [][NextPassStep]_vars

\* the tasks of the pass that probe url
ProbesOf(url) ==
    {k \in 1..Len(prober.health_check_tasks) : prober.health_check_tasks[k].url = url}

\* the probes in flight
ProbesInFlight ==
    {k \in 1..Len(prober.health_check_tasks) : prober.health_check_tasks[k].state = "running"}

\* every upstream of the pool has one finished probe whose result is in proxy_table
AllWritten ==
    \A i \in 1..Len(proxy_url) :
        LET url == proxy_url[i].url
        IN  /\ Cardinality(ProbesOf(url)) = 1
            /\ url \in prober.written
            /\ url \in DOMAIN proxy_table
            /\ \A k \in ProbesOf(url) :
                  /\ prober.health_check_tasks[k].state = "done"
                  /\ proxy_table[url] = prober.health_check_tasks[k].latency

\* C32: in a health pass, whatever the pool size and bath_size, no upstream is
\* probed twice and at most bath_size probes are in flight; the ordering step
\* starts only when every upstream has been probed once and its result written
\* to proxy_table, and it has run exactly once when the pass is over.
C32_PassProbesOnceInBatches ==
    /\ \A i \in 1..Len(proxy_url) : Cardinality(ProbesOf(proxy_url[i].url)) <= 1
    /\ Cardinality(ProbesInFlight) <= prober.bath_size
    /\ prober.orders <= 1
    /\ prober.pc = "order" => prober.orders = 0 /\ AllWritten
    /\ prober.pc = "sleep" => prober.orders = 1 /\ AllWritten

C32_Witness ==
    /\ prober.pc = "sleep"
    /\ prober.orders = 1
    /\ Len(proxy_url) = 3
    /\ prober.bath_size = 2
    /\ proxy_url[1].url # PoolUrls[1]

\* a pass over a pool with upstreams has ended
PassOver == prober.pc \in {"order", "sleep"} /\ proxy_url # <<>>

\* C33 (as the specification states it): after a health pass the entry stored
\* for every upstream holds the latency of its probe (None if the probe failed)
\* and a health flag, which is False exactly when the probe failed or its latency
\* was minimum_latency or more.
C33_TableHoldsLatencyAndHealth ==
    PassOver =>
        \A k \in 1..Len(prober.health_check_tasks) :
            LET result == prober.health_check_tasks[k]
                entry == update_proxy_table_entry(result)
            IN  /\ proxy_table[result.url] = entry.latency
                /\ entry.latency = result.latency
                /\ "health" \in DOMAIN entry
                /\ entry.health = ~(result.latency = None \/ result.latency >= minimum_latency)

\* C34 (as the specification states it): at the end of a pass over a pool with
\* upstreams the warning has been logged exactly when no probe of the pass was
\* classified healthy.
C34_WarningIffNoHealthy ==
    prober.pc = "sleep" /\ proxy_url # <<>> =>
        (prober.warnings = 1 <=>
            \A k \in 1..Len(prober.health_check_tasks) : ~prober.health_check_tasks[k].health)

\* every probe ends (wait_for bounds the connect by timeout_test), the sleep of
\* update_timeout ends, and the event loop runs the prober's task
SpecPassLive == InitPass /\ [][NextPassStep]_vars /\ WF_vars(NextPassStep)

\* a pass starts
PassStarts == prober.pc = "loop" /\ prober.i = 1

\* C35: the prober never stops: whatever its probes measure, a pass that has
\* started is completed, the ordering step is run and another pass starts, so
\* passes start infinitely often.
C35_ProberNeverStops ==
    /\ []<>PassStarts
    /\ []<>(prober.pc = "sleep" /\ prober.orders = 1)

C35_Witness ==
    /\ prober.pc = "sleep"
    /\ prober.orders = 1
    /\ Len(proxy_url) = 2
    /\ \A k \in 1..Len(prober.health_check_tasks) :
          prober.health_check_tasks[k].latency = None

----------------------------------------------------------------------------
(***************************************************************************)
(* The request body of a plain request: SyncProxy._handle_client_request   *)
(* lines 190-228 and Proxy._handle_client_request lines 475-542, counted   *)
(* in octets.  get_content_length_from_request is imported from            *)
(* app.utils.helpers (proxy.py line 12) and is not defined there; it is    *)
(* taken as documented: the decimal value of Content-Length, 0 when the    *)
(* header is absent or not a number.                                        *)
(***************************************************************************)

\* the most full chunks of a body drawn
MaxChunks == 2

\* the size asked of one read of the body (lines 220 and 525)
ChunkSize == 4096

\* str(n) of a natural number
RECURSIVE str(_)
str(n) == IF n < 10 THEN <<Digits[n + 1]>> ELSE str(n \div 10) \o <<Digits[(n % 10) + 1]>>

\* the Content-Length values drawn
BodyLengths == {0, 1, 5} \cup {k * ChunkSize + d : k \in 1..MaxChunks, d \in {0, 1}}

\* the Content-Length header of a request: absent, a number, or another text
NoContentLength == [present |-> FALSE, value |-> <<>>]

ContentLengthHeaders ==
    {NoContentLength} \cup
    {[present |-> TRUE, value |-> v] : v \in {str(n) : n \in BodyLengths} \cup {<<"a", "b">>, <<"5", "x">>}}

\* the octets of the body that came with the headers, and the octets the client
\* sends after them before it ends its stream
InitialBodyLens == {0, 1, 5}

ClientOctets == {0, 1, ChunkSize + 1, (MaxChunks + 1) * ChunkSize}

get_content_length_from_request(header) ==
    IF header.present /\ IsInt(header.value) THEN int(header.value) ELSE 0

\* line 521 if the octets already buffered were not subtracted
remaining_IgnoreInitial(content_length, initial_body_len) == Max(0, content_length)

\* lines 217 and 521
remaining_after(content_length, initial_body_len) == Max(0, content_length - initial_body_len)

\* lines 208-217, 505-521 and 537-542: the rewritten request is written; with a
\* header terminator the body read so far goes with it and remaining is computed,
\* without one the whole buffer is written and nothing more is read
ForwardRequest ==
    /\ direct.pc = "request"
    /\ LET content_length == get_content_length_from_request(direct.header)
           remaining == IF direct.sep
                        THEN remaining_after(content_length, direct.initial_body_len)
                        ELSE 0
       IN  direct' = [direct EXCEPT !.pc = IF remaining > 0 THEN "read_body" ELSE "response",
                         !.remaining = remaining,
                         !.forwarded = IF direct.sep THEN direct.initial_body_len ELSE 0]
    /\ UNCHANGED directFrame

\* lines 219-224 and 523-534: a read of min(4096, remaining) returns some of the
\* octets the client has sent; they are written to the destination
ReadChunk ==
    /\ direct.pc = "read_body"
    /\ direct.remaining > 0
    /\ direct.client_octets > 0
    /\ LET asked == Min(ChunkSize, direct.remaining)
           most == Min(asked, direct.client_octets)
       IN  \E got \in {most, (most + 1) \div 2} :
             direct' = [direct EXCEPT
                 !.asked = Append(@, asked),
                 !.chunks = Append(@, got),
                 !.forwarded = @ + got,
                 !.client_octets = @ - got,
                 !.remaining = @ - got,
                 !.pc = IF direct.remaining - got > 0 THEN "read_body" ELSE "response"]
    /\ UNCHANGED directFrame

\* lines 221-222 and 527-528: the client's stream has ended: the read returns no
\* octet and the loop is left
ReadEOF ==
    /\ direct.pc = "read_body"
    /\ direct.remaining > 0
    /\ direct.client_octets = 0
    /\ direct' = [direct EXCEPT !.asked = Append(@, Min(ChunkSize, direct.remaining)),
                                !.eof = TRUE, !.pc = "response"]
    /\ UNCHANGED directFrame

\* lines 524-526 and 555: the client sends nothing for timeout seconds: the read
\* raises TimeoutError and the body is given up
ReadTimeout ==
    /\ direct.pc = "read_body"
    /\ direct.remaining > 0
    /\ direct' = [direct EXCEPT !.asked = Append(@, Min(ChunkSize, direct.remaining)),
                                !.pc = "timeout"]
    /\ UNCHANGED directFrame

InitBody ==
    /\ \E header \in ContentLengthHeaders, initial_body_len \in InitialBodyLens,
          client_octets \in ClientOctets, sep \in BOOLEAN :
         /\ ~sep => initial_body_len = 0
         /\ direct = [pc |-> "request", header |-> header, sep |-> sep,
                      initial_body_len |-> initial_body_len, client_octets |-> client_octets,
                      remaining |-> 0, forwarded |-> 0, asked |-> <<>>, chunks |-> <<>>,
                      eof |-> FALSE]
    /\ proxy_url = <<>>
    /\ proxy_concurrent_table = <<>>
    /\ proxy_table = <<>>
    /\ prober = NoProber
    /\ firewall = NoFirewall
    /\ auth = FALSE
    /\ clients = {}
    /\ conn = <<>>
    /\ semaphore = 0
    /\ econn = NoEdge
    /\ calls = NoCalls
    /\ chosen = NoUpstream
    /\ tunnel = NoTunnel
    /\ modes = NoModes
    /\ rewrite = NoRewrite

NextBody ==
    \/ ForwardRequest
    \/ ReadChunk
    \/ ReadEOF
    \/ ReadTimeout

SpecBody == InitBody /\ [][NextBody]_vars

RECURSIVE Sum(_)
Sum(seq) == IF seq = <<>> THEN 0 ELSE Head(seq) + Sum(Tail(seq))

\* the Content-Length of the request as a number, when it is one
HasLength == direct.header.present /\ direct.header.value \in {str(n) : n \in BodyLengths}

Length == CHOOSE n \in BodyLengths : direct.header.value = str(n)

\* the further octets the request allows
Allowed == IF HasLength THEN Max(0, Length - direct.initial_body_len) ELSE 0

\* C36: after the request and the body octets that came with it are sent, the
\* edge proxy reads and forwards at most max(0, Content-Length - initial body
\* length) further octets, asking at most 4096 of a read, and reads no more once
\* the client has ended its stream; with Content-Length absent, zero or not a
\* number nothing more is read.
C36_BodyForwardedUpToContentLength ==
    direct.pc # "request" =>
        /\ Sum(direct.chunks) <= Allowed
        /\ direct.forwarded = (IF direct.sep THEN direct.initial_body_len ELSE 0)
                                  + Sum(direct.chunks)
        /\ \A i \in 1..Len(direct.asked) : direct.asked[i] <= ChunkSize
        /\ \A i \in 1..Len(direct.chunks) : direct.chunks[i] <= direct.asked[i]
        /\ direct.eof => direct.pc = "response"
        /\ Allowed = 0 => direct.asked = <<>> /\ direct.pc = "response"
        /\ direct.pc = "response" /\ ~direct.eof /\ direct.sep => Sum(direct.chunks) = Allowed

C36_Witness ==
    /\ direct.pc = "response"
    /\ direct.header.value = str(ChunkSize + 1)
    /\ direct.initial_body_len = 1
    /\ direct.chunks = <<ChunkSize>>
    /\ ~direct.eof

----------------------------------------------------------------------------
(***************************************************************************)
(* What the manager writes before and while it relays:                     *)
(* ProxyManager._handle_client_request lines 185 and 238-251, in octets.   *)
(* The upstream has been chosen and connected.                             *)
(***************************************************************************)

\* ProxyProtocol.FINISHED
FINISHED == CRLF \o CRLF

HTTP11 == <<"H", "T", "T", "P", "/", "1", ".", "1">>

CONNECT == <<"C", "O", "N", "N", "E", "C", "T">>

SP == <<" ">>

\* str.upper() of the letters drawn in lower case
upper(text) ==
    [i \in 1..Len(text) |->
        CASE text[i] = "c" -> "C" [] text[i] = "o" -> "O" [] text[i] = "n" -> "N"
          [] text[i] = "e" -> "E" [] text[i] = "t" -> "T" [] OTHER -> text[i]]

\* the request lines drawn, token by token, with what each is: a CONNECT request
\* or not, and its target (the second token, or nothing)
ForwardRequestLines ==
    { [tokens |-> <<CONNECT, <<"a", ":", "4">>, HTTP11>>, connect |-> TRUE,
       target |-> <<"a", ":", "4">>],
      [tokens |-> <<<<"c", "o", "n", "n", "e", "c", "t">>, <<"a", ":", "4">>, HTTP11>>,
       connect |-> TRUE, target |-> <<"a", ":", "4">>],
      [tokens |-> <<CONNECT>>, connect |-> TRUE, target |-> <<>>],
      [tokens |-> <<<<"G", "E", "T">>, <<"/">>, HTTP11>>, connect |-> FALSE, target |-> <<"/">>],
      [tokens |-> <<<<"P", "O", "S", "T">>, <<"/", "x">>>>, connect |-> FALSE,
       target |-> <<"/", "x">>],
      [tokens |-> <<CONNECT \o <<"X">>, <<"a", ":", "4">>, HTTP11>>, connect |-> FALSE,
       target |-> <<"a", ":", "4">>] }

\* the header lines drawn
ForwardHeaderLines ==
    { <<"H", "o", "s", "t", ":", " ", "a">>,
      <<"P", "r", "o", "x", "y", "-", "A", "u", "t", "h", "o", "r", "i", "z", "a", "t", "i",
        "o", "n", ":", " ", "B", "a", "s", "i", "c", " ", "e">>,
      <<"P", "r", "o", "x", "y", "-", "C", "o", "n", "n", "e", "c", "t", "i", "o", "n", ":",
        " ", "k">> }

RECURSIVE JoinTokens(_)
JoinTokens(tokens) ==
    IF Len(tokens) = 1 THEN Head(tokens) ELSE Head(tokens) \o SP \o JoinTokens(Tail(tokens))

\* what the upstream sends: a response header block and then data, or an
\* unfinished header block and the end of its stream
UpstreamStreams ==
    { <<"2", "0", "0">> \o FINISHED \o <<"u">>,
      <<"4", "0", "7">> \o CRLF \o <<"A", ":", "b">> \o FINISHED,
      <<"2", "0", "0">> \o CRLF }

\* what the client sends after its headers
ClientStreams == {<<>>, <<"b">>}

\* helpers.py lines 102-110: the first line split at the spaces
get_method_and_target_from_request(request) ==
    LET line_end == find(request, CRLF, 0)
        request_line == IF line_end = 0 - 1 THEN request ELSE slice(request, 0, line_end)
        first == find(request_line, SP, 0)
        rest == IF first = 0 - 1 THEN <<>> ELSE sliceFrom(request_line, first + 1)
        second == find(rest, SP, 0)
    IN  [method |-> upper(IF first = 0 - 1 THEN request_line ELSE slice(request_line, 0, first)),
         target |-> IF second = 0 - 1 THEN rest ELSE slice(rest, 0, second)]

\* ProxyProtocol.CONNECT_LINE, response.py lines 108-109
CONNECT_LINE(target) == CONNECT \o SP \o target \o SP \o HTTP11 \o FINISHED

\* line 185
GetMethodAndTarget ==
    /\ direct.pc = "request"
    /\ LET parsed == get_method_and_target_from_request(direct.request)
       IN  direct' = [direct EXCEPT !.pc = "forward", !.method = parsed.method,
                                    !.target = parsed.target]
    /\ UNCHANGED directFrame

\* lines 239-241: the CONNECT line is written to the upstream and drained
WriteConnectLine ==
    /\ direct.pc = "forward"
    /\ direct.method = CONNECT
    /\ direct' = [direct EXCEPT !.pc = "upstream_response",
                                !.upstream_sent = @ \o CONNECT_LINE(direct.target)]
    /\ UNCHANGED directFrame

\* lines 242-244: readuntil returns the upstream's octets up to the first header
\* terminator; they are written to the client and drained
ReadUpstreamResponse ==
    /\ direct.pc = "upstream_response"
    /\ LET at == find(direct.upstream_stream, FINISHED, 0)
           response == slice(direct.upstream_stream, 0, at + Len(FINISHED))
       IN  /\ at # 0 - 1
           /\ direct' = [direct EXCEPT !.pc = "pipes",
                             !.upstream_stream = sliceFrom(@, at + Len(FINISHED)),
                             !.response = response,
                             !.client_sent = @ \o response]
    /\ UNCHANGED directFrame

\* lines 242 and 252-265: the upstream's stream ends before a header terminator:
\* readuntil raises IncompleteReadError, nothing is relayed
UpstreamResponseIncomplete ==
    /\ direct.pc = "upstream_response"
    /\ find(direct.upstream_stream, FINISHED, 0) = 0 - 1
    /\ direct' = [direct EXCEPT !.pc = "closed"]
    /\ UNCHANGED directFrame

\* lines 246-247 if only the request line were written
WriteRequest_RequestLineOnly ==
    /\ direct.pc = "forward"
    /\ direct.method # CONNECT
    /\ direct' = [direct EXCEPT !.pc = "pipes",
           !.upstream_sent = @ \o slice(direct.request, 0, find(direct.request, CRLF, 0))
                               \o FINISHED]
    /\ UNCHANGED directFrame

\* lines 245-247: the buffered request is written to the upstream and drained
WriteRequest ==
    /\ direct.pc = "forward"
    /\ direct.method # CONNECT
    /\ direct' = [direct EXCEPT !.pc = "pipes", !.upstream_sent = @ \o direct.request]
    /\ UNCHANGED directFrame

\* lines 249-251: the two pipes are created
StartPipes ==
    /\ direct.pc = "pipes"
    /\ direct' = [direct EXCEPT !.pc = "relay", !.relayed = <<>>]
    /\ UNCHANGED directFrame

\* lines 221-228, pipe(client, upstream_writer): the client's octets go to the upstream
PipeUp ==
    /\ direct.pc = "relay"
    /\ direct.client_stream # <<>>
    /\ direct' = [direct EXCEPT !.upstream_sent = @ \o direct.client_stream,
                                !.client_stream = <<>>, !.relayed = Append(@, "up")]
    /\ UNCHANGED directFrame

\* lines 221-228, pipe(upstream_reader, writer): the upstream's octets go to the client
PipeDown ==
    /\ direct.pc = "relay"
    /\ direct.upstream_stream # <<>>
    /\ direct' = [direct EXCEPT !.client_sent = @ \o direct.upstream_stream,
                                !.upstream_stream = <<>>, !.relayed = Append(@, "down")]
    /\ UNCHANGED directFrame

InitForward ==
    /\ \E line \in ForwardRequestLines :
       \E n \in 0..MaxLines :
       \E lines \in [1..n -> ForwardHeaderLines] :
       \E upstream_stream \in UpstreamStreams, client_stream \in ClientStreams :
         direct = [pc |-> "request", line |-> line,
                   request |-> RequestOctets(JoinTokens(line.tokens), lines),
                   method |-> <<>>, target |-> <<>>,
                   upstream_stream |-> upstream_stream, client_stream |-> client_stream,
                   upstream_sent |-> <<>>, client_sent |-> <<>>, response |-> <<>>,
                   relayed |-> <<>>]
    /\ proxy_url = <<>>
    /\ proxy_concurrent_table = <<>>
    /\ proxy_table = <<>>
    /\ prober = NoProber
    /\ firewall = NoFirewall
    /\ auth = FALSE
    /\ clients = {}
    /\ conn = <<>>
    /\ semaphore = 0
    /\ econn = NoEdge
    /\ calls = NoCalls
    /\ chosen = NoUpstream
    /\ tunnel = NoTunnel
    /\ modes = NoModes
    /\ rewrite = NoRewrite

NextForward ==
    \/ GetMethodAndTarget
    \/ WriteConnectLine
    \/ ReadUpstreamResponse
    \/ UpstreamResponseIncomplete
    \/ WriteRequest
    \/ StartPipes
    \/ PipeUp
    \/ PipeDown

SpecForward == InitForward /\ [][NextForward]_vars

\* s starts with prefix
StartsWith(s, prefix) == Len(prefix) <= Len(s) /\ SubSeq(s, 1, Len(prefix)) = prefix

\* C37: before the relay starts the manager has written to the upstream, for a
\* request that is not CONNECT, exactly the octets of the buffered request, and
\* for CONNECT only the line CONNECT <target> HTTP/1.1 and an empty line; for
\* CONNECT the upstream's response header block has gone to the client unchanged
\* before any relayed octet; nothing else is written to either side before the
\* relay.
C37_ForwardedBeforeRelay ==
    /\ direct.pc = "pipes" /\ ~direct.line.connect =>
          direct.upstream_sent = direct.request /\ direct.client_sent = <<>>
    /\ direct.pc = "pipes" /\ direct.line.connect =>
          /\ direct.upstream_sent =
                 CONNECT \o <<" ">> \o direct.line.target \o <<" ">> \o HTTP11 \o <<"\r", "\n", "\r", "\n">>
          /\ \E stream \in UpstreamStreams :
                stream = direct.client_sent \o direct.upstream_stream
          /\ Len(direct.client_sent) >= 4
          /\ SubSeq(direct.client_sent, Len(direct.client_sent) - 3, Len(direct.client_sent))
                 = <<"\r", "\n", "\r", "\n">>
          /\ find(direct.client_sent, <<"\r", "\n", "\r", "\n">>, 0) = Len(direct.client_sent) - 4
    /\ direct.pc \in {"request", "forward", "upstream_response", "closed"} =>
          direct.client_sent = <<>> /\ direct.relayed = <<>>
    /\ direct.pc \in {"request", "forward"} => direct.upstream_sent = <<>>
    /\ direct.pc = "relay" /\ ~direct.line.connect =>
          StartsWith(direct.upstream_sent, direct.request)
    /\ direct.pc = "relay" /\ direct.line.connect =>
          StartsWith(direct.client_sent, direct.response)

C37_Witness ==
    /\ direct.pc = "relay"
    /\ direct.line.connect
    /\ direct.line.tokens[1] # CONNECT
    /\ direct.relayed = <<"down">>
    /\ Len(direct.request) > 30

----------------------------------------------------------------------------
(***************************************************************************)
(* More requests than the pool has capacity for: the dispatch of           *)
(* ProxyManager._handle_client_request (lines 185-219) on pools whose      *)
(* max_connections add up to less than the number of requests.             *)
(***************************************************************************)

\* the requests sent to the manager
CapRequests == 3

\* pools of a total capacity of 0, 1, 2 and 3
CapPools ==
    {<<ProxyModel("A", 0, 2)>>, <<ProxyModel("A", 1, 2)>>,
     <<ProxyModel("A", 1, 2), ProxyModel("B", 1, 2)>>,
     <<ProxyModel("A", 2, 2), ProxyModel("B", 1, 1)>>}

InitCap ==
    /\ proxy_url \in CapPools
    /\ proxy_concurrent_table = get_proxy_concurrent_table(proxy_url)
    /\ proxy_table = <<>>
    /\ prober = NoProber
    /\ firewall = NoFirewall
    /\ auth = FALSE
    /\ clients = {<<"h3", "GET", TRUE>>, <<"h3", "CONNECT", TRUE>>}
    /\ conn = [r \in 1..CapRequests |-> NewConn]
    /\ semaphore = 0
    /\ econn = NoEdge
    /\ calls = NoCalls
    /\ chosen = "none"
    /\ tunnel = NoTunnel
    /\ modes = NoModes
    /\ rewrite = NoRewrite
    /\ direct = NoDirect

NextCap ==
    \/ \E r \in Requests : Dispatch(r)
    \/ \E r \in Requests : ConnectFail(r)
    \/ \E r \in Requests : Drain502(r)
    \/ \E r \in Requests : ConnectOk(r)

SpecCap == InitCap /\ [][NextCap]_vars

\* the max_connections of the pool added up
RECURSIVE TotalCapacity(_)
TotalCapacity(pool) ==
    IF pool = <<>> THEN 0 ELSE Head(pool).max_connections + TotalCapacity(Tail(pool))

\* the requests that hold a slot of some upstream
Holding == UNION {InFlight(proxy_url[i].url) : i \in 1..Len(proxy_url)}

\* an upstream's counter is above its max_connections
OverCap(i) == proxy_concurrent_table[proxy_url[i].url] > proxy_url[i].max_connections

\* C38: max_connections is no hard cap: for a pool with upstreams _choose_proxy
\* returns one of them whatever the counters are, also when each is at or above
\* its max_connections, and once more requests hold a slot than the pool's
\* max_connections add up to, some counter is above its max_connections.
C38_MaxConnectionsNoHardCap ==
    /\ proxy_url # <<>> =>
          \E i \in 1..Len(proxy_url) :
              choose_proxy(proxy_url, proxy_concurrent_table) = proxy_url[i].url
    /\ Cardinality(Holding) > TotalCapacity(proxy_url) =>
          \E i \in 1..Len(proxy_url) : OverCap(i)

C38_Witness ==
    /\ Len(proxy_url) = 2
    /\ Cardinality(Holding) = CapRequests
    /\ \A i \in 1..Len(proxy_url) : proxy_url[i].max_connections = 1
    /\ \E i \in 1..Len(proxy_url) : OverCap(i)

----------------------------------------------------------------------------
(***************************************************************************)
(* The end of the edge proxy's tunnel, Proxy._tunnel lines 621-640: once a *)
(* relay task has ended, the steps that follow wait for no peer: the wait  *)
(* of line 621 returns, the pending task is cancelled and awaited, the     *)
(* sockets are closed.                                                     *)
(***************************************************************************)

\* the steps of lines 621-640 of the tunnel of client c
TunnelClosing(c) == ECancelPending(c) \/ ECancelled(c) \/ ETunnelClose(c)

\* the client connections whose tunnels are followed to their end
LiveClients == 1

InitEdgeLive ==
    /\ semaphore = edge_max_connections
    /\ econn = [c \in 1..LiveClients |-> NewEConn]
    /\ \E cfg \in ManagerConfigs :
         /\ firewall = cfg[1]
         /\ auth = cfg[2]
    /\ clients = EdgeClients
    /\ proxy_url = <<>>
    /\ proxy_concurrent_table = <<>>
    /\ proxy_table = <<>>
    /\ prober = NoProber
    /\ conn = <<>>
    /\ calls = NoCalls
    /\ chosen = NoUpstream
    /\ tunnel = NoTunnel
    /\ modes = NoModes
    /\ rewrite = NoRewrite
    /\ direct = NoDirect

SpecEdgeLive ==
    InitEdgeLive /\ [][NextEdge]_vars /\ \A c \in 1..LiveClients : WF_vars(TunnelClosing(c))

\* one direction of the tunnel of c has ended, the other is still relaying
OneDirectionEnded(c) ==
    /\ econn[c].pc = "tunnel"
    /\ \/ econn[c].task_up = "done" /\ econn[c].task_down = "running"
       \/ econn[c].task_down = "done" /\ econn[c].task_up = "running"

\* the tunnel of c is over: no direction relays, both sockets are closed
TunnelOver(c) ==
    /\ econn[c].pc = "done"
    /\ econn[c].task_up # "running"
    /\ econn[c].task_down # "running"
    /\ econn[c].writer = "closed"
    /\ econn[c].dest = "closed"

\* C39: in the tunnel of the edge proxy the end of one direction alone (a read
\* that times out) ends the whole tunnel: the other direction, whatever it is
\* relaying, stops and both sockets are closed.
C39_OneDirectionEndsTunnel ==
    \A c \in 1..LiveClients : OneDirectionEnded(c) ~> TunnelOver(c)

C39_Witness ==
    \E c \in EClients :
        /\ TunnelOver(c)
        /\ econn[c].task_up = "done"
        /\ econn[c].task_down = "cancelled"
        /\ Count(econn[c].sent, UpstreamData) = 1

----------------------------------------------------------------------------
(***************************************************************************)
(* A sequence of calls of ProxyResponse (response.py lines 8-100).  The    *)
(* default of the headers parameter is one dict, made when the function is *)
(* defined (line 35); lines 76-83 write into the dict they are given.      *)
(***************************************************************************)

\* the calls of a sequence
MaxCalls == 3

\* the headers arguments drawn
GivenHeaders == {<<>>, CONNECTION_CLOSE}

\* the bodies drawn: None, "a" and "aé"
GivenBodies == {<<>>, <<<<97>>>>, <<<<97, 233>>>>}

\* ProxyResponse(status_code, body, headers=headers): the dict of the caller is
\* the one written into, and is the headers attribute of the result (line 95)
CallWithHeaders ==
    /\ direct.pc = "calls"
    /\ Len(direct.calls) < MaxCalls
    /\ \E status_code \in StatusCodes, body \in GivenBodies, headers \in GivenHeaders :
         LET response == ProxyResponse(status_code, body, headers)
         IN  direct' = [direct EXCEPT !.calls = Append(@,
                 [status_code |-> status_code, body |-> body, given |-> TRUE,
                  headers |-> headers, headers_after |-> response.headers,
                  response |-> response])]
    /\ UNCHANGED directFrame

\* ProxyResponse(status_code, body): headers is the default dict of line 35, which
\* keeps what the call writes into it
CallOmittingHeaders ==
    /\ direct.pc = "calls"
    /\ Len(direct.calls) < MaxCalls
    /\ \E status_code \in StatusCodes, body \in GivenBodies :
         LET response == ProxyResponse(status_code, body, direct.default_headers)
         IN  direct' = [direct EXCEPT !.default_headers = response.headers,
                 !.calls = Append(@,
                 [status_code |-> status_code, body |-> body, given |-> FALSE,
                  headers |-> <<>>, headers_after |-> <<>>,
                  response |-> response])]
    /\ UNCHANGED directFrame

InitBuilder ==
    /\ direct = [pc |-> "calls", default_headers |-> <<>>, calls |-> <<>>]
    /\ proxy_url = <<>>
    /\ proxy_concurrent_table = <<>>
    /\ proxy_table = <<>>
    /\ prober = NoProber
    /\ firewall = NoFirewall
    /\ auth = FALSE
    /\ clients = {}
    /\ conn = <<>>
    /\ semaphore = 0
    /\ econn = NoEdge
    /\ calls = NoCalls
    /\ chosen = NoUpstream
    /\ tunnel = NoTunnel
    /\ modes = NoModes
    /\ rewrite = NoRewrite

NextBuilder ==
    \/ CallWithHeaders
    \/ CallOmittingHeaders

SpecBuilder == InitBuilder /\ [][NextBuilder]_vars

\* two calls have equal arguments
SameArguments(a, b) ==
    /\ a.status_code = b.status_code
    /\ a.body = b.body
    /\ a.given = b.given
    /\ a.headers = b.headers

\* C40 (as the specification states it): across a sequence of calls of the
\* response builder, two calls with equal status code, body and headers (headers
\* omitted in both, or equal) give identical octets, and the mapping passed by
\* the caller is the same after the call as before.
C40_OutputDependsOnlyOnArguments ==
    /\ \A i, j \in 1..Len(direct.calls) :
          SameArguments(direct.calls[i], direct.calls[j]) =>
              direct.calls[i].response = direct.calls[j].response
    /\ \A i \in 1..Len(direct.calls) :
          direct.calls[i].given => direct.calls[i].headers_after = direct.calls[i].headers

====
